---- MODULE Spec2Model ----
(***************************************************************************)
(* A model of virtex, a sparse virtual texture cache: the VirtualTexture   *)
(* slot table with its LRU and tile directory (src/src/texture.rs), and    *)
(* the rasterization pipeline that feeds it (src/src/svg.rs,               *)
(* src/src/stack.rs, src/src/renderer_advanced.rs).                        *)
(***************************************************************************)
EXTENDS Integers, Sequences, FiniteSets, TLC

(***************************************************************************)
(* Bounds of the model.                                                    *)
(***************************************************************************)
\* Width and height of the cache texture, in pixels.
CacheTextureW == 8
CacheTextureH == 4
\* Side of a tile without its gutter, in pixels.
TileSize == 1
\* Bucket count the directory is constructed with.
InitialBucketSize == 1
\* Requested tiles have x in 0..MaxTileX, y = 0, lod = 0.
MaxTileX == 2
\* The directory is not grown beyond this bucket count.
MaxBucketSize == 8
\* Number of rasterizer worker threads.
ThreadCount == 2
\* A directory under test is constructed with 0..MaxInitialBucketSize buckets.
MaxInitialBucketSize == 6
\* Number of inserts into a directory under test.
MaxInserts == 3
\* Number of threads sharing a ConcurrentStack under test.
StackThreadCount == 3
\* Number of push calls on a ConcurrentStack under test.
MaxPushes == 2
\* A cache texture under test is 1..MaxTextureW by 1..MaxTextureH pixels,
\* its tiles 1..MaxTileSide pixels without their gutter.
MaxTextureW == 9
MaxTextureH == 6
MaxTileSide == 2

(***************************************************************************)
(* Option<T>: None is the empty sequence, Some(x) a one-element sequence.  *)
(***************************************************************************)
None == <<>>
Some(x) == <<x>>

(***************************************************************************)
(* 32-bit unsigned arithmetic.  A u32 is a pair <<hi, lo>> of 16-bit       *)
(* halves, so that every intermediate value stays a small integer.         *)
(***************************************************************************)
\* A u32 of 2^31 or more is written as the i32 with the same bits.
U32(n) == <<(n \div 65536) % 65536, n % 65536>>

RECURSIVE XorBits(_, _)
XorBits(a, b) ==
    IF a = 0 THEN b
    ELSE IF b = 0 THEN a
    ELSE (((a % 2) + (b % 2)) % 2) + 2 * XorBits(a \div 2, b \div 2)

Xor32(a, b) == <<XorBits(a[1], b[1]), XorBits(a[2], b[2])>>

\* a >> 16
Shr16(a) == <<0, a[1]>>

\* a >> 13
Shr13(a) == <<a[1] \div 8192, (a[2] \div 8192) + (a[1] % 8192) * 8>>

\* a.wrapping_mul(c), by bytes with carry propagation.
WrappingMul(a, c) ==
    LET a0 == a[2] % 256
        a1 == a[2] \div 256
        a2 == a[1] % 256
        a3 == a[1] \div 256
        c0 == c[2] % 256
        c1 == c[2] \div 256
        c2 == c[1] % 256
        c3 == c[1] \div 256
        s0 == a0 * c0
        s1 == a0 * c1 + a1 * c0 + (s0 \div 256)
        s2 == a0 * c2 + a1 * c1 + a2 * c0 + (s1 \div 256)
        s3 == a0 * c3 + a1 * c2 + a2 * c1 + a3 * c0 + (s2 \div 256)
    IN  <<(s2 % 256) + 256 * (s3 % 256), (s0 % 256) + 256 * (s1 % 256)>>

\* a % n for a u32 a and 0 < n < 2^15
Mod32(a, n) == ((a[1] % n) * (65536 % n) + (a[2] % n)) % n

\* u32::leading_zeros
RECURSIVE BitLength(_)
BitLength(n) == IF n = 0 THEN 0 ELSE 1 + BitLength(n \div 2)

LeadingZeros(n) == 32 - BitLength(n)

(***************************************************************************)
(* TileDescriptor                                                          *)
(***************************************************************************)
\* TileDescriptor::new for 0 <= x < 2^13, 0 <= y < 2^12, -32 <= lod < 32;
\* the three bit fields do not overlap, so | is +, and (lod as u32) & 0x3f
\* is lod modulo 64.
TileDescriptorNew(x, y, lod) == y * 524288 + x * 64 + (lod % 64)

\* TileDescriptor::new as a release build computes it for -8192 <= x < 0 or
\* -4096 <= y < 0, where no assertion stops it: (x as u32) << 6 and
\* (y as u32) << 19 wrap, and a negative x sets every bit above bit 6, those
\* of y included.
TileDescriptorNewWrapped(x, y, lod) ==
    IF x < 0
    THEN x * 64 + (lod % 64)
    ELSE y * 524288 + x * 64 + (lod % 64)

\* Tile coordinates are below 1 << 13, levels of detail in -32..31.
TileCoordLimit == 8192
LodLimit == 32

\* TileDescriptor::new as the u32 it builds, for every tile position and
\* level of detail its assertions admit: bits 19..31 are y, bits 6..18 are x
\* and bits 0..5 are lod modulo 64.
TileDescriptorBits(x, y, lod) ==
    <<y * 8 + (x \div 1024), (x % 1024) * 64 + (lod % 64)>>

\* TileDescriptor::tile_position: ((self.0 >> 6) & ((1 << 13) - 1),
\* self.0 >> 19)
TilePosition(d) ==
    <<(d[2] \div 64) + (d[1] % 8) * 1024, d[1] \div 8>>

\* Lod reading the six bits as an unsigned number.
LodZeroExtends(d) == d[2] % 64

\* TileDescriptor::lod: the low byte of self.0 << 2 read as an i8, shifted
\* right by 2 with its sign.
Lod(d) ==
    LET byte == (d[2] * 4) % 256
    IN  (IF byte >= 128 THEN byte - 256 ELSE byte) \div 4

\* HashValue mixing the seed in before the last shift.
HashValueSeedsEarly(descriptor, seed) ==
    LET h0 == U32(descriptor)
        h1 == Xor32(h0, Shr16(h0))
        h2 == WrappingMul(h1, <<34283, 51819>>)
        h3 == Xor32(h2, Shr13(h2))
        h4 == Xor32(WrappingMul(h3, <<49842, 44597>>), U32(seed))
    IN  Xor32(h4, Shr16(h4))

\* TileDescriptor::hash
HashValue(descriptor, seed) ==
    LET h0 == U32(descriptor)
        h1 == Xor32(h0, Shr16(h0))
        h2 == WrappingMul(h1, <<34283, 51819>>)   \* 0x85ebca6b
        h3 == Xor32(h2, Shr13(h2))
        h4 == WrappingMul(h3, <<49842, 44597>>)   \* 0xc2b2ae35
        h5 == Xor32(h4, Shr16(h4))
    IN  Xor32(h5, U32(seed))

(***************************************************************************)
(* TileHashSubtable: buckets is a sequence of Option<TileHashEntry>        *)
(* (bucket i of the code is buckets[i + 1]), seed a u32.                   *)
(***************************************************************************)
TileHashEntry(descriptor, address) ==
    [descriptor |-> descriptor, address |-> address]

\* TileHashSubtable::new
SubtableNew(seed, bucket_size) ==
    [buckets |-> [i \in 1..bucket_size |-> None], seed |-> seed]

\* The tile descriptors the clients request.
Descriptors == {TileDescriptorNew(x, 0, 0) : x \in 0..MaxTileX}

\* The tile descriptors inserted into a directory under test.
TestDescriptors == {TileDescriptorNew(x, 0, 0) : x \in 0..(MaxTileX + 1)}

\* The pixels of a feedback image, (x, y, lod, alpha) each: the tiles the
\* clients request, the same with alpha 0, and pixels with a negative x or y.
FeedbackPixels ==
    {<<x, 0, 0, alpha>> : x \in (0 - 1)..MaxTileX, alpha \in {0, 1}}
        \cup {<<0, 0 - 1, 0, 1>>}

\* The descriptors a release build makes of the pixels with a negative
\* coordinate.
WrappedDescriptors ==
    {TileDescriptorNewWrapped(pixel[1], pixel[2], pixel[3]) :
         pixel \in {q \in FeedbackPixels : q[1] < 0 \/ q[2] < 0}}

\* The values rng.gen() can return for a seed.
Seeds == {0, 1540483477}

\* TileDescriptor::hash, tabulated for the descriptors and seeds in use.
HashTable ==
    [descriptor \in Descriptors \cup TestDescriptors \cup WrappedDescriptors
                      \cup {0 - 1} |->
        [seed \in Seeds |-> HashValue(descriptor, seed)]]

Hash(descriptor, seed) ==
    IF descriptor \in DOMAIN HashTable /\ seed \in Seeds
    THEN HashTable[descriptor][seed]
    ELSE HashValue(descriptor, seed)

\* descriptor.hash(self.seed) as usize % self.buckets.len()
BucketIndex(subtable, descriptor) ==
    Mod32(Hash(descriptor, subtable.seed), Len(subtable.buckets)) + 1

\* The address in a bucket if the bucket holds the descriptor.
MatchingAddress(bucket, descriptor) ==
    IF bucket # None /\ bucket[1].descriptor = descriptor
    THEN Some(bucket[1].address)
    ELSE None

\* TileHashSubtable::get
SubtableGet(subtable, descriptor) ==
    MatchingAddress(subtable.buckets[BucketIndex(subtable, descriptor)],
                    descriptor)

\* SubtableInsertAt leaving a bucket held by another key as it is and
\* reporting the new entry as inserted.
SubtableInsertAtKeepsOld(subtable, bucket_index, descriptor, address) ==
    IF /\ subtable.buckets[bucket_index] # None
       /\ subtable.buckets[bucket_index][1].descriptor # descriptor
    THEN [subtable |-> subtable, result |-> "Inserted", ejected |-> None]
    ELSE [subtable |-> [subtable EXCEPT
                          !.buckets[bucket_index] =
                              Some(TileHashEntry(descriptor, address))],
          result |-> IF subtable.buckets[bucket_index] = None
                     THEN "Inserted" ELSE "Replaced",
          ejected |-> None]

\* TileHashSubtable::insert once the bucket index is computed; ejected is
\* Some(old entry) for Ejected.
SubtableInsertAt(subtable, bucket_index, descriptor, address) ==
    [subtable |-> [subtable EXCEPT
                     !.buckets[bucket_index] =
                         Some(TileHashEntry(descriptor, address))],
     result |-> IF subtable.buckets[bucket_index] = None
                THEN "Inserted"
                ELSE IF subtable.buckets[bucket_index][1].descriptor = descriptor
                THEN "Replaced"
                ELSE "Ejected",
     ejected |-> IF /\ subtable.buckets[bucket_index] # None
                    /\ subtable.buckets[bucket_index][1].descriptor # descriptor
                 THEN subtable.buckets[bucket_index]
                 ELSE None]

\* TileHashSubtable::insert
SubtableInsert(subtable, descriptor, address) ==
    SubtableInsertAt(subtable, BucketIndex(subtable, descriptor),
                     descriptor, address)

\* TileHashSubtable::remove once the bucket index is computed.
SubtableRemoveAt(subtable, bucket_index, descriptor) ==
    IF MatchingAddress(subtable.buckets[bucket_index], descriptor) # None
    THEN [subtable |-> [subtable EXCEPT !.buckets[bucket_index] = None],
          ret |-> Some(subtable.buckets[bucket_index][1].address)]
    ELSE [subtable |-> subtable, ret |-> None]

\* SubtableRemove with the bucket left occupied: the address is returned but
\* the entry is not taken out.
SubtableRemoveKeepsBucket(subtable, descriptor) ==
    [subtable |-> subtable, ret |-> SubtableGet(subtable, descriptor)]

\* TileHashSubtable::remove
SubtableRemove(subtable, descriptor) ==
    SubtableRemoveAt(subtable, BucketIndex(subtable, descriptor), descriptor)

(***************************************************************************)
(* TileHashTable: subtables is a pair of subtables.                        *)
(***************************************************************************)
\* TileHashTable::with_seeds
WithSeeds(seeds, initial_bucket_size) ==
    [subtables |-> <<SubtableNew(seeds[1], initial_bucket_size),
                     SubtableNew(seeds[2], initial_bucket_size)>>]

\* TileHashTable::new: the tables it can return, one per pair of seeds drawn.
TableNew(initial_bucket_size) ==
    {WithSeeds(<<s0, s1>>, initial_bucket_size) : s0 \in Seeds, s1 \in Seeds}

\* The first of two lookups that found something.
FirstSome(first, second) == IF first # None THEN first ELSE second

\* TileHashTable::get
TableGet(table, descriptor) ==
    FirstSome(SubtableGet(table.subtables[1], descriptor),
              SubtableGet(table.subtables[2], descriptor))

\* TileHashTable::remove, given what the removal from each subtable gives:
\* the second subtable is touched only if the first did not hold the key.
TableRemoveFrom(table, r0, r1) ==
    IF r0.ret # None
    THEN [table |-> [table EXCEPT !.subtables[1] = r0.subtable],
          ret |-> r0.ret]
    ELSE IF r1.ret # None
    THEN [table |-> [table EXCEPT !.subtables[2] = r1.subtable],
          ret |-> r1.ret]
    ELSE [table |-> table, ret |-> None]

\* TileHashTable::remove
TableRemove(table, descriptor) ==
    TableRemoveFrom(table,
                    SubtableRemove(table.subtables[1], descriptor),
                    SubtableRemove(table.subtables[2], descriptor))

\* let max_chain = 31 - bucket_size.leading_zeros()
MaxChain(bucket_size) == 31 - LeadingZeros(bucket_size)

\* The displacement loop of TileHashTable::insert: step counts the subtable
\* inserts done so far, rounds of subtable 0 then subtable 1.  done tells
\* whether the loop returned; entry is the entry left in hand.
\* DisplaceInto is the body of the loop, r being what the insert into
\* subtable s gave.
RECURSIVE Displace(_, _, _, _)
DisplaceInto(table, entry, step, max_chain, s, r) ==
    IF r.result = "Ejected"
    THEN Displace([table EXCEPT !.subtables[s] = r.subtable],
                  r.ejected[1], step + 1, max_chain)
    ELSE [table |-> [table EXCEPT !.subtables[s] = r.subtable],
          done |-> TRUE, result |-> r.result, entry |-> entry]

Displace(table, entry, step, max_chain) ==
    IF step >= 2 * max_chain
    THEN [table |-> table, done |-> FALSE, result |-> "None", entry |-> entry]
    ELSE DisplaceInto(table, entry, step, max_chain, (step % 2) + 1,
                      SubtableInsert(table.subtables[(step % 2) + 1],
                                     entry.descriptor, entry.address))

\* The occupied buckets of a table in the order rebuild visits them.
OccupiedEntries(table) ==
    SelectSeq(table.subtables[1].buckets \o table.subtables[2].buckets,
              LAMBDA bucket : bucket # None)

\* TileHashTable::insert and TileHashTable::rebuild.  Each gives the set of
\* its possible outcomes, one per choice of the seeds drawn by the rebuilds
\* it goes through: Insert the pairs of resulting table and return value,
\* Rebuild the resulting tables.  AfterDisplace is insert from the end of
\* its displacement loop, d being what the loop gave.  ReinsertAll is the
\* loop of rebuild over the remaining old buckets, from each table the loop
\* may have reached.  A table is not grown beyond MaxBucketSize buckets.
RECURSIVE Insert(_, _, _), ReinsertAll(_, _), Rebuild(_, _)
\* AfterDisplace returning without a rebuild, the entry in hand dropped.
AfterDisplaceGivesUp(bucket_size, d) ==
    {[table |-> d.table, result |-> IF d.done THEN d.result ELSE "Inserted"]}

\* AfterDisplace growing the table by one bucket instead of doubling it.
AfterDisplaceGrowsByOne(bucket_size, d) ==
    IF d.done
    THEN {[table |-> d.table, result |-> d.result]}
    ELSE IF bucket_size + 1 > MaxBucketSize
    THEN {}
    ELSE UNION {Insert(rebuilt, d.entry.descriptor, d.entry.address) :
                  rebuilt \in Rebuild(d.table, bucket_size + 1)}

AfterDisplace(bucket_size, d) ==
    IF d.done
    THEN {[table |-> d.table, result |-> d.result]}
    ELSE IF bucket_size * 2 > MaxBucketSize
    THEN {}
    ELSE UNION {Insert(rebuilt, d.entry.descriptor, d.entry.address) :
                  rebuilt \in Rebuild(d.table, bucket_size * 2)}

Insert(table, descriptor, address) ==
    AfterDisplace(Len(table.subtables[1].buckets),
                  Displace(table, TileHashEntry(descriptor, address), 0,
                           MaxChain(Len(table.subtables[1].buckets))))

ReinsertAll(tables, old_buckets) ==
    IF old_buckets = <<>>
    THEN tables
    ELSE ReinsertAll(
             UNION {{r.table : r \in Insert(t, old_buckets[1][1].descriptor,
                                            old_buckets[1][1].address)} :
                      t \in tables},
             Tail(old_buckets))

Rebuild(table, new_bucket_size) ==
    ReinsertAll(TableNew(new_bucket_size), OccupiedEntries(table))

(***************************************************************************)
(* VirtualTexture.  A value vt of the struct is a record of its fields     *)
(* cache, lru (front of the deque first), tiles (slot of address a is      *)
(* tiles[a + 1]) and next_free_tile.                                       *)
(***************************************************************************)
\* tile_backing_size
TileBackingSize == TileSize + 2

\* tile_texture_tiles_across, tile_texture_tiles_down
TilesAcross == CacheTextureW \div TileBackingSize
TilesDown == CacheTextureH \div TileBackingSize

\* CacheSize counting tiles of tile_size, without their gutters.
CacheSizeIgnoresGutter ==
    (CacheTextureW \div TileSize) * (CacheTextureH \div TileSize)

\* cache_size
CacheSize == TilesAcross * TilesDown

\* AddressToTileCoordsIn with the column and the row exchanged.
AddressToTileCoordsSwapped(tiles_across, address) ==
    <<address \div tiles_across, address % tiles_across>>

\* address_to_tile_coords, for a texture with tiles_across tiles in a row.
AddressToTileCoordsIn(tiles_across, address) ==
    <<address % tiles_across, address \div tiles_across>>

\* address_to_tile_coords
AddressToTileCoords(address) == AddressToTileCoordsIn(TilesAcross, address)

Addresses == 0..(CacheSize - 1)

\* TileCacheEntry
TileCacheEntry(address, descriptor, status) ==
    [address |-> address, descriptor |-> descriptor, status |-> status]

\* RequestResult
CacheFull == <<"CacheFull">>
CacheHit(address) == <<"CacheHit", address>>
CachePending(address) == <<"CachePending", address>>
CacheMiss(address) == <<"CacheMiss", address>>

\* VirtualTexture::new, for each table TileHashTable::new can return.
VirtualTextureNew ==
    {[cache |-> table,
      lru |-> <<>>,
      tiles |-> [i \in 1..CacheSize |-> TileCacheEntry(i - 1, None, "Empty")],
      next_free_tile |-> 0] : table \in TableNew(InitialBucketSize)}

\* ScanLru taking the back of the LRU whatever its status.
ScanLruEvictsPending(tiles, lru, pending_tile_addresses) ==
    IF lru = <<>>
    THEN [lru |-> lru, pending_tile_addresses |-> pending_tile_addresses,
          tile_address |-> None]
    ELSE [lru |-> SubSeq(lru, 1, Len(lru) - 1),
          pending_tile_addresses |-> pending_tile_addresses,
          tile_address |-> Some(lru[Len(lru)])]

\* ScanLru parking the Rasterized slots along with the Pending ones.
RECURSIVE ScanLruSkipsRasterized(_, _, _)
ScanLruSkipsRasterized(tiles, lru, pending_tile_addresses) ==
    IF lru = <<>>
    THEN [lru |-> lru, pending_tile_addresses |-> pending_tile_addresses,
          tile_address |-> None]
    ELSE LET candidate_address == lru[Len(lru)]
             popped == SubSeq(lru, 1, Len(lru) - 1)
         IN  IF tiles[candidate_address + 1].status = "Empty"
             THEN [lru |-> popped,
                   pending_tile_addresses |-> pending_tile_addresses,
                   tile_address |-> Some(candidate_address)]
             ELSE ScanLruSkipsRasterized(tiles, popped,
                      Append(pending_tile_addresses, candidate_address))

\* The loop of get_next_free_tile that pops candidates off the back of the
\* LRU, parking the pending ones.
RECURSIVE ScanLru(_, _, _)
ScanLru(tiles, lru, pending_tile_addresses) ==
    IF lru = <<>>
    THEN [lru |-> lru, pending_tile_addresses |-> pending_tile_addresses,
          tile_address |-> None]
    ELSE LET candidate_address == lru[Len(lru)]
             popped == SubSeq(lru, 1, Len(lru) - 1)
         IN  IF tiles[candidate_address + 1].status \in {"Empty", "Rasterized"}
             THEN [lru |-> popped,
                   pending_tile_addresses |-> pending_tile_addresses,
                   tile_address |-> Some(candidate_address)]
             ELSE ScanLru(tiles, popped,
                          Append(pending_tile_addresses, candidate_address))

\* EvictTile without the removal of the victim's key from the directory.
EvictTileKeepsDirectory(vt, tile_address) ==
    LET tile == vt.tiles[tile_address + 1]
    IN  IF tile.status = "Empty"
        THEN [vt |-> vt, ret |-> Some(tile_address), panic |-> "none"]
        ELSE IF tile.status = "Pending"
        THEN [vt |-> vt, ret |-> None, panic |-> "unreachable"]
        ELSE IF tile.descriptor = None
        THEN [vt |-> vt, ret |-> None, panic |-> "unwrap"]
        ELSE [vt |-> [vt EXCEPT
                        !.tiles[tile_address + 1] =
                            TileCacheEntry(tile_address, None, "Empty")],
              ret |-> Some(tile_address), panic |-> "none"]

\* EvictTile emptying the victim without taking its key out of the slot.
EvictTileKeepsKey(vt, tile_address) ==
    LET tile == vt.tiles[tile_address + 1]
    IN  IF tile.status = "Empty"
        THEN [vt |-> vt, ret |-> Some(tile_address), panic |-> "none"]
        ELSE IF tile.status = "Pending"
        THEN [vt |-> vt, ret |-> None, panic |-> "unreachable"]
        ELSE IF tile.descriptor = None
        THEN [vt |-> vt, ret |-> None, panic |-> "unwrap"]
        ELSE [vt |-> [vt EXCEPT
                        !.cache = TableRemove(vt.cache,
                                              tile.descriptor[1]).table,
                        !.tiles[tile_address + 1].status = "Empty"],
              ret |-> Some(tile_address), panic |-> "none"]

\* The end of get_next_free_tile, from the match on the status of the slot
\* chosen: vt is the texture once the parked addresses are pushed back.
EvictTile(vt, tile_address) ==
    LET tile == vt.tiles[tile_address + 1]
    IN  IF tile.status = "Empty"
        THEN [vt |-> vt, ret |-> Some(tile_address), panic |-> "none"]
        ELSE IF tile.status = "Pending"
        THEN [vt |-> vt, ret |-> None, panic |-> "unreachable"]
        ELSE IF tile.descriptor = None
        THEN [vt |-> vt, ret |-> None, panic |-> "unwrap"]
        ELSE [vt |-> [vt EXCEPT
                        !.cache = TableRemove(vt.cache,
                                              tile.descriptor[1]).table,
                        !.tiles[tile_address + 1] =
                            TileCacheEntry(tile_address, None, "Empty")],
              ret |-> Some(tile_address), panic |-> "none"]

\* PushBackPending losing the address parked last.
PushBackPendingDropsLast(lru, pending_tile_addresses) ==
    lru \o SubSeq(pending_tile_addresses, 1, Len(pending_tile_addresses) - 1)

\* Pushing the parked addresses at the back of the LRU, in parking order.
PushBackPending(lru, pending_tile_addresses) ==
    lru \o pending_tile_addresses

\* The end of get_next_free_tile, from the loop that pushes the parked
\* addresses back: scan is what the loop over the LRU gave.
PushBackAndEvict(vt, scan) ==
    IF scan.tile_address = None
    THEN [vt |-> [vt EXCEPT
                    !.lru = PushBackPending(scan.lru,
                                            scan.pending_tile_addresses)],
          ret |-> None, panic |-> "none"]
    ELSE EvictTile([vt EXCEPT
                      !.lru = PushBackPending(scan.lru,
                                              scan.pending_tile_addresses)],
                   scan.tile_address[1])

\* get_next_free_tile taking a slot from the LRU as soon as there is one.
GetNextFreeTileEvictsEarly(vt) ==
    IF vt.next_free_tile < CacheSize /\ vt.lru = <<>>
    THEN [vt |-> [vt EXCEPT !.next_free_tile = vt.next_free_tile + 1],
          ret |-> Some(vt.next_free_tile), panic |-> "none"]
    ELSE PushBackAndEvict(vt, ScanLru(vt.tiles, vt.lru, <<>>))

\* VirtualTexture::get_next_free_tile: the texture after the call, the value
\* returned and the panic raised, if any.
GetNextFreeTile(vt) ==
    IF vt.next_free_tile < CacheSize
    THEN [vt |-> [vt EXCEPT !.next_free_tile = vt.next_free_tile + 1],
          ret |-> Some(vt.next_free_tile), panic |-> "none"]
    ELSE PushBackAndEvict(vt, ScanLru(vt.tiles, vt.lru, <<>>))

\* Index of the first occurrence of address in lru, 0 if there is none.
LruIndex(lru, address) ==
    IF \E i \in 1..Len(lru) : lru[i] = address
    THEN CHOOSE i \in 1..Len(lru) :
             /\ lru[i] = address
             /\ \A j \in 1..(i - 1) : lru[j] # address
    ELSE 0

\* Promote without the removal of the old occurrence.
PromoteKeepsOld(lru, lru_index, tile_address) ==
    <<tile_address>> \o lru

\* Promote pushing the address to the back.
PromoteToBack(lru, lru_index, tile_address) ==
    SubSeq(lru, 1, lru_index - 1) \o SubSeq(lru, lru_index + 1, Len(lru))
                                 \o <<tile_address>>

\* lru.remove(lru_index); lru.push_front(tile_address)
Promote(lru, lru_index, tile_address) ==
    <<tile_address>> \o SubSeq(lru, 1, lru_index - 1)
                     \o SubSeq(lru, lru_index + 1, Len(lru))

\* A debug_assert: when cond fails, a debug build panics and a release build
\* goes on with the outcomes given.
DebugAssert(cond, vt, outcomes) ==
    IF cond
    THEN outcomes
    ELSE outcomes \cup {[vt |-> vt, result |-> None, panic |-> "debug_assert"]}

\* ResidentOutcome reporting a Pending tile as a hit.
ResidentOutcomeHitsPending(vt, tile_address) ==
    IF vt.tiles[tile_address + 1].status = "Empty"
    THEN [vt |-> vt, result |-> None, panic |-> "unreachable"]
    ELSE [vt |-> vt, result |-> Some(CacheHit(tile_address)),
          panic |-> "none"]

\* ResidentOutcome reporting a Pending tile as a miss.
ResidentOutcomeMissesPending(vt, tile_address) ==
    IF vt.tiles[tile_address + 1].status = "Empty"
    THEN [vt |-> vt, result |-> None, panic |-> "unreachable"]
    ELSE IF vt.tiles[tile_address + 1].status = "Pending"
    THEN [vt |-> vt, result |-> Some(CacheMiss(tile_address)),
          panic |-> "none"]
    ELSE [vt |-> vt, result |-> Some(CacheHit(tile_address)),
          panic |-> "none"]

\* The match on the status of a resident tile that ends the first branch of
\* request_tile.
ResidentOutcome(vt, tile_address) ==
    IF vt.tiles[tile_address + 1].status = "Empty"
    THEN [vt |-> vt, result |-> None, panic |-> "unreachable"]
    ELSE IF vt.tiles[tile_address + 1].status = "Pending"
    THEN [vt |-> vt, result |-> Some(CachePending(tile_address)),
          panic |-> "none"]
    ELSE [vt |-> vt, result |-> Some(CacheHit(tile_address)),
          panic |-> "none"]

\* The first branch of request_tile, the directory holding the key at
\* tile_address, found at lru_index in the LRU (0 when it is not there).
RequestResident(vt, tile_descriptor, tile_address, lru_index) ==
    IF lru_index = 0
    THEN {[vt |-> vt, result |-> None, panic |-> "lru"]}
    ELSE DebugAssert(
             vt.tiles[tile_address + 1].descriptor = Some(tile_descriptor),
             [vt EXCEPT !.lru = Promote(vt.lru, lru_index, tile_address)],
             {ResidentOutcome(
                  [vt EXCEPT !.lru = Promote(vt.lru, lru_index, tile_address)],
                  tile_address)})

\* AssignTile without the push of the address to the LRU front.
AssignTileKeepsLru(vt, tile_descriptor, tile_address) ==
    DebugAssert(
        /\ vt.tiles[tile_address + 1].descriptor = None
        /\ vt.tiles[tile_address + 1].status = "Empty",
        vt,
        {[vt |-> [vt EXCEPT
                    !.tiles[tile_address + 1] =
                        TileCacheEntry(tile_address, Some(tile_descriptor),
                                       "Pending"),
                    !.cache = inserted.table],
          result |-> Some(CacheMiss(tile_address)),
          panic |-> "none"] :
           inserted \in Insert(vt.cache, tile_descriptor, tile_address)})

\* The end of request_tile, from the block that fills the slot
\* get_next_free_tile returned.
AssignTile(vt, tile_descriptor, tile_address) ==
    DebugAssert(
        /\ vt.tiles[tile_address + 1].descriptor = None
        /\ vt.tiles[tile_address + 1].status = "Empty",
        vt,
        {[vt |-> [vt EXCEPT
                    !.tiles[tile_address + 1] =
                        TileCacheEntry(tile_address, Some(tile_descriptor),
                                       "Pending"),
                    !.cache = inserted.table,
                    !.lru = <<tile_address>> \o vt.lru],
          result |-> Some(CacheMiss(tile_address)),
          panic |-> "none"] :
           inserted \in Insert(vt.cache, tile_descriptor, tile_address)})

\* The second branch of request_tile, free being what get_next_free_tile
\* gave.
RequestAbsent(tile_descriptor, free) ==
    IF free.panic # "none"
    THEN {[vt |-> free.vt, result |-> None, panic |-> free.panic]}
    ELSE IF free.ret = None
    THEN {[vt |-> free.vt, result |-> Some(CacheFull), panic |-> "none"]}
    ELSE AssignTile(free.vt, tile_descriptor, free.ret[1])

\* request_tile from the test of what the directory holds for the key.
RequestFound(vt, tile_descriptor, found) ==
    IF found # None
    THEN RequestResident(vt, tile_descriptor, found[1],
                         LruIndex(vt.lru, found[1]))
    ELSE RequestAbsent(tile_descriptor, GetNextFreeTile(vt))

\* VirtualTexture::request_tile: the set of outcomes of the call, each the
\* texture after it, Some(value returned) and the panic raised, if any.
RequestTileOutcomes(vt, tile_descriptor) ==
    RequestFound(vt, tile_descriptor, TableGet(vt.cache, tile_descriptor))

\* MarkAsRasterizedOutcomes moving the marked address to the LRU front.
MarkAsRasterizedPromotes(vt, tile_address, tile_descriptor) ==
    {[vt |-> [vt EXCEPT
                !.tiles[tile_address + 1].status = "Rasterized",
                !.lru = <<tile_address>> \o
                            SelectSeq(vt.lru, LAMBDA a : a # tile_address)],
      result |-> None, panic |-> "none"]}

\* VirtualTexture::mark_as_rasterized: the set of outcomes of the call.
MarkAsRasterizedOutcomes(vt, tile_address, tile_descriptor) ==
    LET tile == vt.tiles[tile_address + 1]
    IN  DebugAssert(
            tile.descriptor = Some(tile_descriptor) /\ tile.status = "Pending",
            vt,
            {[vt |-> [vt EXCEPT !.tiles[tile_address + 1].status = "Rasterized"],
              result |-> None, panic |-> "none"]})

\* VirtualTexture::table_size: the bucket count of the directory.
TableSize(vt) == Len(vt.cache.subtables[1].buckets)

\* The size of the metadata texture for the directory of vt as it is now:
\* Vector2I::new(table_size as i32, 4)
MetadataTextureSize(vt) == <<TableSize(vt), 4>>

(***************************************************************************)
(* State.                                                                  *)
(*   texture              the VirtualTexture owned by the main thread      *)
(*   panicked             "none", or the panic that ended the main thread  *)
(*   last_call            history: the last public call on the texture,    *)
(*                        its arguments, Some(the value request_tile       *)
(*                        returned) and Some(the slot as it was before     *)
(*                        the call) when the call evicted it               *)
(*   recency              history: the addresses request_tile has returned *)
(*                        (as Hit, Pending or Miss), most recent first,    *)
(*                        each once                                        *)
(*   main_pc              where the main loop is: "prepare" (requesting    *)
(*                        the tiles of a frame) or "rasterize" (inside     *)
(*                        rasterize_needed_tiles)                          *)
(*   needed_tiles         the main loop's list of TileRequests             *)
(*   rasterization_stack  the ConcurrentStack's vector, top last           *)
(*   threads              per rasterizer thread, its position and the      *)
(*                        request it popped                                *)
(*   rasterized_tiles     the channel of RasterizedTiles, oldest first     *)
(*   metadata_texture     Some(the size the renderer allocated its         *)
(*                        metadata texture with)                           *)
(*   metadata_upload      Some(the size of the rectangle the last render   *)
(*                        uploaded metadata to)                            *)
(*   metadata             Some(the metadata the last render packed and     *)
(*                        uploaded): four rows of one texel per bucket     *)
(***************************************************************************)
VARIABLES texture, panicked, last_call, recency,
          main_pc, needed_tiles, rasterization_stack, threads,
          rasterized_tiles,
          tile_hash_table, first_bucket_size, entries_to_insert, removed,
          insert_result, call_stack,
          position, level, encoded, decoded,
          metadata_texture, metadata_upload, metadata,
          vector, mutex, callers, pushed, popped,
          cache_texture_size, tile_size, cache_texture, uploads

vars == <<texture, panicked, last_call, recency,
          main_pc, needed_tiles, rasterization_stack, threads,
          rasterized_tiles,
          tile_hash_table, first_bucket_size, entries_to_insert, removed,
          insert_result, call_stack,
          position, level, encoded, decoded,
          metadata_texture, metadata_upload, metadata,
          vector, mutex, callers, pushed, popped,
          cache_texture_size, tile_size, cache_texture, uploads>>

textureVars == <<texture, panicked, last_call, recency>>
pipelineVars == <<main_pc, needed_tiles, rasterization_stack, threads,
                  rasterized_tiles>>
directoryVars == <<tile_hash_table, first_bucket_size, entries_to_insert,
                   removed, insert_result, call_stack>>
descriptorVars == <<position, level, encoded, decoded>>
rendererVars == <<metadata_texture, metadata_upload, metadata>>
stackVars == <<vector, mutex, callers, pushed, popped>>
geometryVars == <<cache_texture_size, tile_size, cache_texture, uploads>>
unitVars == <<directoryVars, descriptorVars, rendererVars, stackVars,
              geometryVars>>

Threads == 1..ThreadCount

\* TileRequest
TileRequest(descriptor, address) ==
    [descriptor |-> descriptor, address |-> address]

\* The history of returned addresses after a call that returned result.
Touch(history, result) ==
    IF result = None \/ result = Some(CacheFull)
    THEN history
    ELSE <<result[1][2]>> \o SelectSeq(history, LAMBDA a : a # result[1][2])

\* A value of last_call.
LastCall(op, descriptor, address, returned, evicted) ==
    [op |-> op, descriptor |-> descriptor, address |-> address,
     returned |-> returned, evicted |-> evicted]

\* The slot a request_tile call evicted: the slot, as it was in vt before
\* the call, of the address the call returned as a miss, if it was in use.
Evicted(vt, result) ==
    IF /\ result # None
       /\ result[1][1] = "CacheMiss"
       /\ vt.tiles[result[1][2] + 1].status # "Empty"
    THEN Some(vt.tiles[result[1][2] + 1])
    ELSE None

\* No directory is under test on its own.
NoDirectory ==
    /\ tile_hash_table = None
    /\ first_bucket_size = 0
    /\ entries_to_insert = <<>>
    /\ removed = FALSE
    /\ insert_result = None
    /\ call_stack = <<>>

\* No tile descriptor is under test on its own.
NoDescriptor ==
    /\ position = None
    /\ level = None
    /\ encoded = None
    /\ decoded = None

\* No renderer has been constructed.
NoRenderer ==
    /\ metadata_texture = None
    /\ metadata_upload = None
    /\ metadata = None

\* No ConcurrentStack is under test on its own.
NoStack ==
    /\ vector = <<>>
    /\ mutex = None
    /\ callers = <<>>
    /\ pushed = <<>>
    /\ popped = <<>>

\* No cache texture is under test on its own.
NoCacheTexture ==
    /\ cache_texture_size = None
    /\ tile_size = None
    /\ cache_texture = None
    /\ uploads = <<>>

\* No texture and no pipeline are running.
NoTexture ==
    /\ texture = None
    /\ panicked = "none"
    /\ last_call = LastCall("new", None, None, None, None)
    /\ recency = <<>>
    /\ main_pc = "prepare"
    /\ needed_tiles = <<>>
    /\ rasterization_stack = <<>>
    /\ threads = [t \in Threads |-> [pc |-> "pop", msg |-> None]]
    /\ rasterized_tiles = <<>>

Init ==
    /\ texture \in VirtualTextureNew
    /\ panicked = "none"
    /\ last_call = LastCall("new", None, None, None, None)
    /\ recency = <<>>
    /\ main_pc = "prepare"
    /\ needed_tiles = <<>>
    /\ rasterization_stack = <<>>
    /\ threads = [t \in Threads |-> [pc |-> "pop", msg |-> None]]
    /\ rasterized_tiles = <<>>
    /\ metadata_texture = Some(MetadataTextureSize(texture))
    /\ metadata_upload = None
    /\ metadata = None
    /\ NoDirectory
    /\ NoDescriptor
    /\ NoStack
    /\ NoCacheTexture

\* A call of request_tile, with one of its outcomes.
CallRequestTile(tile_descriptor, outcome) ==
    /\ texture' = outcome.vt
    /\ panicked' = outcome.panic
    /\ last_call' = LastCall("request_tile", Some(tile_descriptor), None,
                          outcome.result,
                          Evicted(texture, outcome.result))
    /\ recency' = Touch(recency, outcome.result)
    /\ UNCHANGED unitVars

\* A call of mark_as_rasterized, with one of its outcomes.
CallMarkAsRasterized(tile_address, tile_descriptor, outcome) ==
    /\ texture' = outcome.vt
    /\ panicked' = outcome.panic
    /\ last_call' = LastCall("mark_as_rasterized", Some(tile_descriptor),
                          Some(tile_address), None, None)
    /\ UNCHANGED <<recency, unitVars>>

(***************************************************************************)
(* The VirtualTexture under any client that keeps to its contract.         *)
(***************************************************************************)
\* A client calls request_tile.
RequestTile(tile_descriptor) ==
    /\ panicked = "none"
    /\ \E outcome \in RequestTileOutcomes(texture, tile_descriptor) :
           CallRequestTile(tile_descriptor, outcome)
    /\ UNCHANGED pipelineVars

\* A client calls mark_as_rasterized on a Pending slot holding the key.
MarkAsRasterized(tile_address, tile_descriptor) ==
    /\ panicked = "none"
    /\ texture.tiles[tile_address + 1].descriptor = Some(tile_descriptor)
    /\ texture.tiles[tile_address + 1].status = "Pending"
    /\ \E outcome \in MarkAsRasterizedOutcomes(texture, tile_address,
                                               tile_descriptor) :
           CallMarkAsRasterized(tile_address, tile_descriptor, outcome)
    /\ UNCHANGED pipelineVars

Next ==
    \/ \E tile_descriptor \in Descriptors : RequestTile(tile_descriptor)
    \/ \E tile_address \in Addresses, tile_descriptor \in Descriptors :
           MarkAsRasterized(tile_address, tile_descriptor)

Spec == Init /\ [][Next]_vars

(***************************************************************************)
(* The VirtualTexture under an AdvancedRenderer that renders between the   *)
(* calls of its client.                                                    *)
(***************************************************************************)
\* AdvancedRenderer::render, as far as the metadata texture goes: the
\* metadata of the directory as it is now is uploaded to the rectangle
\* RectI::new(Vector2I::default(), metadata_texture_size) of the texture
\* that new allocated.
\* TileCacheEntry::rasterized_descriptor: the key of a slot once
\* mark_as_rasterized has been called for it.
RasterizedDescriptor(tile) ==
    IF tile.status = "Rasterized" THEN tile.descriptor ELSE None

\* A coordinate in pixels of the cache texture scaled by cache_texture_scale
\* (1 / extent), kept as the fraction pixel / extent.
Normalised(pixel, extent) == <<pixel, extent>>

\* tile_rect: the tile of the slot at tile_address without its gutter, in
\* normalised coordinates (origin x, origin y, max_x, max_y).
TileRect(tile_address) ==
    <<Normalised(AddressToTileCoords(tile_address)[1] * TileBackingSize + 1,
                 CacheTextureW),
      Normalised(AddressToTileCoords(tile_address)[2] * TileBackingSize + 1,
                 CacheTextureH),
      Normalised(AddressToTileCoords(tile_address)[1] * TileBackingSize + 1
                     + TileSize,
                 CacheTextureW),
      Normalised(AddressToTileCoords(tile_address)[2] * TileBackingSize + 1
                     + TileSize,
                 CacheTextureH)>>

\* The texels of vec![0.0; ...] nothing was written to.
ZeroTexel == <<0, 0, 0, 0>>
ZeroRect ==
    <<Normalised(0, CacheTextureW), Normalised(0, CacheTextureH),
      Normalised(0, CacheTextureW), Normalised(0, CacheTextureH)>>

\* Whether the loop of render writes the texels of a bucket: the bucket is
\* not empty and the slot it names has a rasterized descriptor.
Packed(vt, bucket) ==
    /\ bucket # None
    /\ RasterizedDescriptor(vt.tiles[bucket[1].address + 1]) # None

\* The metadata render packs: rows 2s and 2s + 1 are those of subtable s,
\* texel i of a row that of bucket i (here i + 1).  Row 2s holds the tile
\* position and level of detail of the slot's rasterized descriptor, row
\* 2s + 1 the tile's rectangle.
PackMetadata(vt) ==
    [row \in 0..3 |->
        [i \in 1..TableSize(vt) |->
            IF ~Packed(vt, vt.cache.subtables[(row \div 2) + 1].buckets[i])
            THEN IF row % 2 = 0 THEN ZeroTexel ELSE ZeroRect
            ELSE IF row % 2 = 0
            THEN <<TilePosition(U32(RasterizedDescriptor(vt.tiles[
                       vt.cache.subtables[(row \div 2) + 1].buckets[i][1]
                           .address + 1])[1]))[1],
                   TilePosition(U32(RasterizedDescriptor(vt.tiles[
                       vt.cache.subtables[(row \div 2) + 1].buckets[i][1]
                           .address + 1])[1]))[2],
                   Lod(U32(RasterizedDescriptor(vt.tiles[
                       vt.cache.subtables[(row \div 2) + 1].buckets[i][1]
                           .address + 1])[1])),
                   0>>
            ELSE TileRect(
                     vt.cache.subtables[(row \div 2) + 1].buckets[i][1]
                         .address)]]

\* The probe of one subtable by the sampling shader: the texels of the
\* bucket the key hashes to match when they hold the key's position and
\* level of detail and a rectangle of non-zero area.
ShaderProbe(texels, seed, table_size, key, s) ==
    IF /\ texels[2 * s][Mod32(Hash(key, seed), table_size) + 1]
              = <<TilePosition(U32(key))[1], TilePosition(U32(key))[2],
                  Lod(U32(key)), 0>>
       /\ texels[2 * s + 1][Mod32(Hash(key, seed), table_size) + 1][3][1]
              > texels[2 * s + 1][Mod32(Hash(key, seed), table_size) + 1][1][1]
       /\ texels[2 * s + 1][Mod32(Hash(key, seed), table_size) + 1][4][1]
              > texels[2 * s + 1][Mod32(Hash(key, seed), table_size) + 1][2][1]
    THEN Some(texels[2 * s + 1][Mod32(Hash(key, seed), table_size) + 1])
    ELSE None

\* The lookup of the sampling shader: subtable A, then subtable B.
ShaderGet(texels, cache_seed_a, cache_seed_b, table_size, key) ==
    FirstSome(ShaderProbe(texels, cache_seed_a, table_size, key, 0),
              ShaderProbe(texels, cache_seed_b, table_size, key, 1))

Render ==
    /\ panicked = "none"
    /\ metadata_upload' = Some(MetadataTextureSize(texture))
    /\ metadata' = Some(PackMetadata(texture))
    /\ UNCHANGED <<textureVars, pipelineVars, directoryVars, descriptorVars,
                   stackVars, geometryVars, metadata_texture>>

RenderNext ==
    \/ Next
    \/ Render

RenderSpec == Init /\ [][RenderNext]_vars

(***************************************************************************)
(* The pipeline: the main loop (a frame's request_tile calls, then         *)
(* rasterize_needed_tiles) and the rasterizer threads.                     *)
(***************************************************************************)
\* TileRasterRequest
TileRasterRequest(tile_request, tile_origin) ==
    [tile_request |-> tile_request, tile_origin |-> tile_origin]

\* RasterizedTile; the pixels are named by the descriptor they were
\* rasterized for.
RasterizedTile(tile_request, tile_origin, new_tile_pixels) ==
    [tile_request |-> tile_request, tile_origin |-> tile_origin,
     new_tile_pixels |-> new_tile_pixels]

\* Condvar::notify_one: the thread states it can leave, one per waiting
\* thread it may wake; nothing changes when no thread waits.
NotifyOne(ts) ==
    IF \E t \in Threads : ts[t].pc = "wait"
    THEN {[ts EXCEPT ![t].pc = "pop"] : t \in {u \in Threads : ts[u].pc = "wait"}}
    ELSE {ts}

\* Prepare noting a request for a pending tile as well as for a miss.
PrepareRequestsPending(tile_descriptor) ==
    /\ panicked = "none"
    /\ main_pc = "prepare"
    /\ \E outcome \in RequestTileOutcomes(texture, tile_descriptor) :
           /\ CallRequestTile(tile_descriptor, outcome)
           /\ needed_tiles' =
                  IF /\ outcome.result # None
                     /\ outcome.result[1][1] \in {"CacheMiss", "CachePending"}
                  THEN Append(needed_tiles,
                              TileRequest(tile_descriptor, outcome.result[1][2]))
                  ELSE needed_tiles
    /\ UNCHANGED <<main_pc, rasterization_stack, threads, rasterized_tiles>>

\* One pixel of the feedback image: request its tile, note a miss.
Prepare(tile_descriptor) ==
    /\ panicked = "none"
    /\ main_pc = "prepare"
    /\ \E outcome \in RequestTileOutcomes(texture, tile_descriptor) :
           /\ CallRequestTile(tile_descriptor, outcome)
           /\ needed_tiles' =
                  IF outcome.result # None /\ outcome.result[1][1] = "CacheMiss"
                  THEN Append(needed_tiles,
                              TileRequest(tile_descriptor, outcome.result[1][2]))
                  ELSE needed_tiles
    /\ UNCHANGED <<main_pc, rasterization_stack, threads, rasterized_tiles>>

\* The main loop goes from the requests of a frame to rasterize_needed_tiles.
BeginRasterize ==
    /\ panicked = "none"
    /\ main_pc = "prepare"
    /\ main_pc' = "rasterize"
    /\ UNCHANGED <<textureVars, unitVars, needed_tiles, rasterization_stack, threads,
                   rasterized_tiles>>

\* rasterize_needed_tiles drains one request of needed_tiles onto the stack
\* (ConcurrentStack::push).
PushNeededTile ==
    /\ panicked = "none"
    /\ main_pc = "rasterize"
    /\ needed_tiles # <<>>
    /\ rasterization_stack' =
           Append(rasterization_stack,
                  TileRasterRequest(needed_tiles[1],
                      AddressToTileCoords(needed_tiles[1].address)))
    /\ needed_tiles' = Tail(needed_tiles)
    /\ threads' \in NotifyOne(threads)
    /\ UNCHANGED <<textureVars, unitVars, main_pc, rasterized_tiles>>

\* rasterize_needed_tiles receives one result and marks its tile rasterized.
ReceiveRasterizedTile ==
    /\ panicked = "none"
    /\ main_pc = "rasterize"
    /\ needed_tiles = <<>>
    /\ rasterized_tiles # <<>>
    /\ \E outcome \in MarkAsRasterizedOutcomes(texture,
                          rasterized_tiles[1].tile_request.address,
                          rasterized_tiles[1].tile_request.descriptor) :
           CallMarkAsRasterized(rasterized_tiles[1].tile_request.address,
                                rasterized_tiles[1].tile_request.descriptor,
                                outcome)
    /\ rasterized_tiles' = Tail(rasterized_tiles)
    /\ UNCHANGED <<main_pc, needed_tiles, rasterization_stack, threads>>

\* try_recv finds the channel empty: rasterize_needed_tiles returns.
EndRasterize ==
    /\ panicked = "none"
    /\ main_pc = "rasterize"
    /\ needed_tiles = <<>>
    /\ rasterized_tiles = <<>>
    /\ main_pc' = "prepare"
    /\ UNCHANGED <<textureVars, unitVars, needed_tiles, rasterization_stack, threads,
                   rasterized_tiles>>

\* Pop leaving the request it returns on the stack.
PopKeepsRequest(t) ==
    /\ panicked = "none"
    /\ threads[t].pc = "pop"
    /\ IF rasterization_stack # <<>>
       THEN /\ threads' = [threads EXCEPT
                  ![t] = [pc |-> "render",
                          msg |-> Some(rasterization_stack[
                                           Len(rasterization_stack)])]]
            /\ UNCHANGED rasterization_stack
       ELSE /\ threads' = [threads EXCEPT ![t].pc = "wait"]
            /\ UNCHANGED rasterization_stack
    /\ UNCHANGED <<textureVars, unitVars, main_pc, needed_tiles, rasterized_tiles>>

\* ConcurrentStack::pop under the lock: take the top, or wait on the condvar.
Pop(t) ==
    /\ panicked = "none"
    /\ threads[t].pc = "pop"
    /\ IF rasterization_stack # <<>>
       THEN /\ threads' = [threads EXCEPT
                  ![t] = [pc |-> "render",
                          msg |-> Some(rasterization_stack[
                                           Len(rasterization_stack)])]]
            /\ rasterization_stack' =
                   SubSeq(rasterization_stack, 1, Len(rasterization_stack) - 1)
       ELSE /\ threads' = [threads EXCEPT ![t].pc = "wait"]
            /\ UNCHANGED rasterization_stack
    /\ UNCHANGED <<textureVars, unitVars, main_pc, needed_tiles, rasterized_tiles>>

\* The thread rasterizes the tile it popped and sends the result.
Send(t) ==
    /\ panicked = "none"
    /\ threads[t].pc = "render"
    /\ rasterized_tiles' =
           Append(rasterized_tiles,
                  RasterizedTile(threads[t].msg[1].tile_request,
                                 threads[t].msg[1].tile_origin,
                                 threads[t].msg[1].tile_request.descriptor))
    /\ threads' = [threads EXCEPT ![t] = [pc |-> "pop", msg |-> None]]
    /\ UNCHANGED <<textureVars, unitVars, main_pc, needed_tiles, rasterization_stack>>

PipelineNext ==
    \/ \E tile_descriptor \in Descriptors : Prepare(tile_descriptor)
    \/ BeginRasterize
    \/ PushNeededTile
    \/ ReceiveRasterizedTile
    \/ EndRasterize
    \/ \E t \in Threads : Pop(t)
    \/ \E t \in Threads : Send(t)

PipelineSpec == Init /\ [][PipelineNext]_vars

(***************************************************************************)
(* AdvancedRenderer::prepare over the pixels of a feedback image.          *)
(***************************************************************************)
\* The assertions of TileDescriptor::new.
DescriptorAssertions(x, y, lod) ==
    /\ x >= 0
    /\ y >= 0
    /\ x < TileCoordLimit
    /\ y < TileCoordLimit
    /\ lod >= 0 - LodLimit
    /\ lod < LodLimit

\* One pixel of the feedback image: a pixel with alpha 0 is passed over;
\* for any other, TileDescriptor::new is called on its x, y and lod and the
\* tile is requested.  When an assertion of TileDescriptor::new fails, a
\* debug build panics and a release build requests the descriptor the
\* wrapped shifts give.
PreparePixel(pixel) ==
    IF pixel[4] = 0
    THEN /\ panicked = "none"
         /\ main_pc = "prepare"
         /\ UNCHANGED vars
    ELSE IF DescriptorAssertions(pixel[1], pixel[2], pixel[3])
    THEN Prepare(TileDescriptorNew(pixel[1], pixel[2], pixel[3]))
    ELSE \/ /\ panicked = "none"
            /\ main_pc = "prepare"
            /\ panicked' = "debug_assert"
            /\ UNCHANGED <<texture, last_call, recency, pipelineVars,
                           unitVars>>
         \/ Prepare(TileDescriptorNewWrapped(pixel[1], pixel[2], pixel[3]))

FeedbackNext == \E pixel \in FeedbackPixels : PreparePixel(pixel)

FeedbackSpec == Init /\ [][FeedbackNext]_vars

\* The pipeline under fair scheduling: every rasterizer thread keeps
\* running, and the main loop keeps going round (a frame's requests come to
\* an end, rasterize_needed_tiles pushes every needed tile, drains the
\* channel and returns).  Which tiles a frame requests is up to the viewer.
FairPipelineSpec ==
    /\ PipelineSpec
    /\ \A t \in Threads : WF_vars(Pop(t)) /\ WF_vars(Send(t))
    /\ WF_vars(BeginRasterize)
    /\ WF_vars(PushNeededTile)
    /\ WF_vars(ReceiveRasterizedTile)
    /\ WF_vars(EndRasterize)

(***************************************************************************)
(* The pipeline with a rasterizer that may panic on a tile.                *)
(***************************************************************************)
\* The rasterizer panics while the thread renders the tile it popped
\* (render_to_canvas, or one of the unwraps of the loop): nothing in run
\* catches the panic, so the thread unwinds and ends, and the request it
\* held is dropped with it.
RasterizePanics(t) ==
    /\ panicked = "none"
    /\ threads[t].pc = "render"
    /\ threads' = [threads EXCEPT ![t] = [pc |-> "dead", msg |-> None]]
    /\ UNCHANGED <<textureVars, unitVars, main_pc, needed_tiles,
                   rasterization_stack, rasterized_tiles>>

PanicNext ==
    \/ PipelineNext
    \/ \E t \in Threads : RasterizePanics(t)

PanicSpec == Init /\ [][PanicNext]_vars

(***************************************************************************)
(* A directory on its own, as the unit test drives it: constructed with    *)
(* any seeds and bucket count, then filled by a list of inserts in which   *)
(* keys may repeat; entries are also taken out as eviction does.           *)
(*   tile_hash_table    the TileHashTable                                  *)
(*   first_bucket_size  history: the bucket count it was constructed with  *)
(*   entries_to_insert  history: the (key, address) pairs inserted so far  *)
(*   removed            history: whether remove was ever called            *)
(*   insert_result      Some(what the last call, an insert, returned)      *)
(*   panicked           "none", or the panic that ended the test           *)
(***************************************************************************)
\* The addresses inserted into a directory under test: the i-th insert has
\* address i, so that any two inserts differ in their address.
TestAddresses == 0..(MaxInserts - 1)

\* VirtualTexture::bucket_size
BucketSize(table) == Len(table.subtables[1].buckets)

DirectoryInit ==
    /\ NoTexture
    /\ NoDescriptor
    /\ NoRenderer
    /\ NoStack
    /\ NoCacheTexture
    /\ \E s0 \in Seeds, s1 \in Seeds, n \in 0..MaxInitialBucketSize :
           /\ tile_hash_table = WithSeeds(<<s0, s1>>, n)
           /\ first_bucket_size = n
    /\ entries_to_insert = <<>>
    /\ removed = FALSE
    /\ insert_result = None
    /\ call_stack = <<>>

\* tile_hash_table.insert(descriptor, address).  On a table without buckets
\* the call panics: 31 - leading_zeros overflows in a debug build, and in a
\* release build the first subtable insert takes a remainder by zero.
TableInsert(descriptor, address) ==
    /\ panicked = "none"
    /\ Len(entries_to_insert) < MaxInserts
    /\ entries_to_insert' = Append(entries_to_insert, <<descriptor, address>>)
    /\ IF BucketSize(tile_hash_table) = 0
       THEN /\ panicked' = "arithmetic"
            /\ insert_result' = None
            /\ UNCHANGED tile_hash_table
       ELSE /\ \E outcome \in Insert(tile_hash_table, descriptor, address) :
                   /\ tile_hash_table' = outcome.table
                   /\ insert_result' = Some(outcome.result)
            /\ UNCHANGED panicked
    /\ UNCHANGED <<texture, last_call, recency, pipelineVars, descriptorVars, rendererVars,
                   stackVars, geometryVars,
                   first_bucket_size, removed, call_stack>>

\* tile_hash_table.remove(descriptor).  On a table without buckets the
\* subtable remove takes a remainder by zero.
TableRemoveEntry(descriptor) ==
    /\ panicked = "none"
    /\ entries_to_insert # <<>>
    /\ removed' = TRUE
    /\ insert_result' = None
    /\ IF BucketSize(tile_hash_table) = 0
       THEN /\ panicked' = "arithmetic"
            /\ UNCHANGED tile_hash_table
       ELSE /\ tile_hash_table' = TableRemove(tile_hash_table, descriptor).table
            /\ UNCHANGED panicked
    /\ UNCHANGED <<texture, last_call, recency, pipelineVars, descriptorVars, rendererVars,
                   stackVars, geometryVars,
                   first_bucket_size, entries_to_insert, call_stack>>

DirectoryNext ==
    \/ \E descriptor \in TestDescriptors :
           TableInsert(descriptor, Len(entries_to_insert))
    \/ \E descriptor \in TestDescriptors : TableRemoveEntry(descriptor)

DirectorySpec == DirectoryInit /\ [][DirectoryNext]_vars

(***************************************************************************)
(* TileHashTable::insert step by step, with the calls it makes: an insert  *)
(* runs its displacement loop one subtable insert at a time, and when the  *)
(* loop ends with an entry in hand it calls rebuild, which calls insert    *)
(* for every old entry, and then insert again for the entry in hand.       *)
(*   call_stack  the frames of the calls in progress, innermost last: an   *)
(*               insert frame has the entry in hand, the number of         *)
(*               subtable inserts done, max_chain, bucket_size and where   *)
(*               it is ("loop", "retry" after its rebuild, "return"        *)
(*               after its inner insert); a rebuild frame has the old      *)
(*               entries not yet re-inserted                               *)
(* A table is not grown beyond MaxBucketSize buckets: the insert that      *)
(* would do so fails as an allocation that cannot be served does, and the  *)
(* test ends.                                                              *)
(***************************************************************************)
\* The frame of a call of insert on a table of bucket_size buckets.
InsertFrame(entry, bucket_size) ==
    [fn |-> "insert", entry |-> entry, step |-> 0,
     max_chain |-> MaxChain(bucket_size), bucket_size |-> bucket_size,
     pc |-> "loop"]

\* The frame of a call of rebuild that has old_buckets to re-insert.
RebuildFrame(old_buckets) == [fn |-> "rebuild", old_buckets |-> old_buckets]

Top == call_stack[Len(call_stack)]
Callers == SubSeq(call_stack, 1, Len(call_stack) - 1)

\* The bucket count rebuild is called with.
NewBucketSize(bucket_size) == bucket_size * 2

\* The test calls tile_hash_table.insert(descriptor, address).
BeginInsert(descriptor, address) ==
    /\ panicked = "none"
    /\ call_stack = <<>>
    /\ Len(entries_to_insert) < MaxInserts
    /\ entries_to_insert' = Append(entries_to_insert, <<descriptor, address>>)
    /\ insert_result' = None
    /\ IF BucketSize(tile_hash_table) = 0
       THEN /\ panicked' = "arithmetic"
            /\ UNCHANGED call_stack
       ELSE /\ call_stack' =
                   <<InsertFrame(TileHashEntry(descriptor, address),
                                 BucketSize(tile_hash_table))>>
            /\ UNCHANGED panicked
    /\ UNCHANGED <<texture, last_call, recency, pipelineVars, descriptorVars, rendererVars,
                   stackVars, geometryVars,
                   tile_hash_table, first_bucket_size, removed>>

\* DisplaceOnce not counting the subtable insert it did.
DisplaceOnceKeepsCount(s, r) ==
    /\ tile_hash_table' = [tile_hash_table EXCEPT !.subtables[s] = r.subtable]
    /\ IF r.result = "Ejected"
       THEN /\ call_stack' = Append(Callers,
                                    [Top EXCEPT !.entry = r.ejected[1]])
            /\ UNCHANGED insert_result
       ELSE /\ call_stack' = Callers
            /\ insert_result' = Some(r.result)
    /\ UNCHANGED panicked

\* One subtable insert of the displacement loop, r being what it gave: the
\* call returns, or goes on with the entry ejected.
DisplaceOnce(s, r) ==
    /\ tile_hash_table' = [tile_hash_table EXCEPT !.subtables[s] = r.subtable]
    /\ IF r.result = "Ejected"
       THEN /\ call_stack' = Append(Callers,
                                    [Top EXCEPT !.entry = r.ejected[1],
                                                !.step = Top.step + 1])
            /\ UNCHANGED insert_result
       ELSE /\ call_stack' = Callers
            /\ insert_result' = Some(r.result)
    /\ UNCHANGED panicked

DisplaceStep ==
    /\ call_stack # <<>>
    /\ Top.fn = "insert"
    /\ Top.pc = "loop"
    /\ Top.step < 2 * Top.max_chain
    /\ DisplaceOnce((Top.step % 2) + 1,
                    SubtableInsert(tile_hash_table.subtables[(Top.step % 2) + 1],
                                   Top.entry.descriptor, Top.entry.address))
    /\ UNCHANGED <<texture, last_call, recency, pipelineVars, descriptorVars, rendererVars,
                   stackVars, geometryVars,
                   first_bucket_size, entries_to_insert, removed>>

\* The loop is over with an entry in hand: self.rebuild(bucket_size * 2)
\* replaces the table by a new one with fresh seeds.
GiveUpAndRehash ==
    /\ call_stack # <<>>
    /\ Top.fn = "insert"
    /\ Top.pc = "loop"
    /\ Top.step >= 2 * Top.max_chain
    /\ IF NewBucketSize(Top.bucket_size) > MaxBucketSize
       THEN /\ panicked' = "capacity"
            /\ call_stack' = <<>>
            /\ UNCHANGED tile_hash_table
       ELSE /\ tile_hash_table' \in TableNew(NewBucketSize(Top.bucket_size))
            /\ call_stack' =
                   Append(Append(Callers, [Top EXCEPT !.pc = "retry"]),
                          RebuildFrame(OccupiedEntries(tile_hash_table)))
            /\ UNCHANGED panicked
    /\ UNCHANGED <<texture, last_call, recency, pipelineVars, descriptorVars, rendererVars,
                   stackVars, geometryVars,
                   first_bucket_size, entries_to_insert, removed,
                   insert_result>>

\* rebuild calls insert for the next old entry.
RebuildNext ==
    /\ call_stack # <<>>
    /\ Top.fn = "rebuild"
    /\ Top.old_buckets # <<>>
    /\ call_stack' =
           Append(Append(Callers,
                         RebuildFrame(Tail(Top.old_buckets))),
                  InsertFrame(Top.old_buckets[1][1],
                              BucketSize(tile_hash_table)))
    /\ UNCHANGED <<textureVars, pipelineVars, descriptorVars, rendererVars,
                   stackVars, geometryVars,
                   tile_hash_table, first_bucket_size, entries_to_insert,
                   removed, insert_result>>

\* rebuild returns.
RebuildReturn ==
    /\ call_stack # <<>>
    /\ Top.fn = "rebuild"
    /\ Top.old_buckets = <<>>
    /\ call_stack' = Callers
    /\ UNCHANGED <<textureVars, pipelineVars, descriptorVars, rendererVars,
                   stackVars, geometryVars,
                   tile_hash_table, first_bucket_size, entries_to_insert,
                   removed, insert_result>>

\* After its rebuild, insert calls itself for the entry in hand.
Retry ==
    /\ call_stack # <<>>
    /\ Top.fn = "insert"
    /\ Top.pc = "retry"
    /\ call_stack' =
           Append(Append(Callers, [Top EXCEPT !.pc = "return"]),
                  InsertFrame(Top.entry, BucketSize(tile_hash_table)))
    /\ UNCHANGED <<textureVars, pipelineVars, descriptorVars, rendererVars,
                   stackVars, geometryVars,
                   tile_hash_table, first_bucket_size, entries_to_insert,
                   removed, insert_result>>

\* insert returns what its inner insert returned.
ReturnInsert ==
    /\ call_stack # <<>>
    /\ Top.fn = "insert"
    /\ Top.pc = "return"
    /\ call_stack' = Callers
    /\ UNCHANGED <<textureVars, pipelineVars, descriptorVars, rendererVars,
                   stackVars, geometryVars,
                   tile_hash_table, first_bucket_size, entries_to_insert,
                   removed, insert_result>>

\* A step of the insert in progress.
InsertStep ==
    \/ DisplaceStep
    \/ GiveUpAndRehash
    \/ RebuildNext
    \/ RebuildReturn
    \/ Retry
    \/ ReturnInsert

\* The addresses play no part in what insert does next (it compares keys
\* only), so the i-th insert of the test has address i.
InsertNext ==
    \/ \E descriptor \in TestDescriptors :
           BeginInsert(descriptor, Len(entries_to_insert))
    \/ InsertStep

\* The thread that called insert keeps running.
InsertSpec == DirectoryInit /\ [][InsertNext]_vars /\ WF_vars(InsertStep)

(***************************************************************************)
(* A tile descriptor on its own: built from a tile position and a level of *)
(* detail that TileDescriptor::new admits, then decoded.                   *)
(***************************************************************************)
\* The tile coordinates tried: the ends of the range and the values around
\* the 16-bit boundary of the descriptor.
SampleCoords == {0, 1, 1023, 1024, TileCoordLimit - 1}

\* The levels of detail tried: all of them.
Lods == (0 - LodLimit)..(LodLimit - 1)

DescriptorInit ==
    /\ NoTexture
    /\ NoDirectory
    /\ NoRenderer
    /\ NoStack
    /\ NoCacheTexture
    /\ position \in SampleCoords \X SampleCoords
    /\ level \in Lods
    /\ encoded = None
    /\ decoded = None

\* TileDescriptor::new(position, level)
Encode ==
    /\ encoded = None
    /\ encoded' = Some(TileDescriptorBits(position[1], position[2], level))
    /\ UNCHANGED <<textureVars, pipelineVars, directoryVars, rendererVars,
                   stackVars, geometryVars, position, level,
                   decoded>>

\* tile_position() and lod() of the descriptor built.
Decode ==
    /\ encoded # None
    /\ decoded = None
    /\ decoded' = Some(<<TilePosition(encoded[1]), Lod(encoded[1])>>)
    /\ UNCHANGED <<textureVars, pipelineVars, directoryVars, rendererVars,
                   stackVars, geometryVars, position, level,
                   encoded>>

DescriptorNext ==
    \/ Encode
    \/ Decode

DescriptorSpec == DescriptorInit /\ [][DescriptorNext]_vars

(***************************************************************************)
(* A ConcurrentStack on its own (src/src/stack.rs), shared by threads that *)
(* each call push and pop in any order.                                    *)
(*   vector   the Vec behind the mutex, top last                           *)
(*   mutex    Some(the thread that holds the lock), or None                *)
(*   callers  per thread, where it is in its call and the object it is     *)
(*            pushing                                                      *)
(*   pushed   history: the objects in the order guard.push took them       *)
(*   popped   history: the objects pop returned, with the thread, in order *)
(* An object is named by the number of its push call.                      *)
(***************************************************************************)
StackThreads == 1..StackThreadCount

nonStackVars == <<textureVars, pipelineVars, directoryVars, descriptorVars,
                  rendererVars, geometryVars>>

StackInit ==
    /\ NoTexture
    /\ NoDirectory
    /\ NoDescriptor
    /\ NoRenderer
    /\ NoCacheTexture
    /\ vector = <<>>
    /\ mutex = None
    /\ callers = [t \in StackThreads |-> [pc |-> "idle", object |-> None]]
    /\ pushed = <<>>
    /\ popped = <<>>

\* The number of push calls begun so far.
PushCalls ==
    Len(pushed) +
    Cardinality({t \in StackThreads : callers[t].pc \in {"push_lock", "push"}})

\* Vec::pop taking the oldest object.
VecPopFront(v) == [object |-> v[1], rest |-> Tail(v)]

\* Vec::pop handing out the last object without taking it off.
VecPopKeepsObject(v) == [object |-> v[Len(v)], rest |-> v]

\* Vec::pop on a vector that is not empty: the last object, and the rest.
VecPop(v) == [object |-> v[Len(v)], rest |-> SubSeq(v, 1, Len(v) - 1)]

\* notify_one waking no thread.
NotifyOneWaiterLost(cs) == {cs}

\* Condvar::notify_one: the callers after one of the threads waiting on the
\* condition variable, if any, is woken.
NotifyOneWaiter(cs) ==
    IF \E t \in StackThreads : cs[t].pc = "wait"
    THEN {[cs EXCEPT ![t].pc = "woken"] :
              t \in {u \in StackThreads : cs[u].pc = "wait"}}
    ELSE {cs}

\* A thread calls push(object).
CallPush(t) ==
    /\ callers[t].pc = "idle"
    /\ PushCalls < MaxPushes
    /\ callers' = [callers EXCEPT
           ![t] = [pc |-> "push_lock", object |-> Some(PushCalls + 1)]]
    /\ UNCHANGED <<nonStackVars, vector, mutex, pushed, popped>>

\* push: self.vector.lock()
PushLock(t) ==
    /\ callers[t].pc = "push_lock"
    /\ mutex = None
    /\ mutex' = Some(t)
    /\ callers' = [callers EXCEPT ![t].pc = "push"]
    /\ UNCHANGED <<nonStackVars, vector, pushed, popped>>

\* push, holding the lock: guard.push(object), notify_one, and the guard is
\* dropped as push returns.
PushObject(t) ==
    /\ callers[t].pc = "push"
    /\ vector' = Append(vector, callers[t].object[1])
    /\ pushed' = Append(pushed, callers[t].object[1])
    /\ callers' \in NotifyOneWaiter(
           [callers EXCEPT ![t] = [pc |-> "idle", object |-> None]])
    /\ mutex' = None
    /\ UNCHANGED <<nonStackVars, popped>>

\* A thread calls pop().
CallPop(t) ==
    /\ callers[t].pc = "idle"
    /\ callers' = [callers EXCEPT ![t].pc = "pop_lock"]
    /\ UNCHANGED <<nonStackVars, vector, mutex, pushed, popped>>

\* pop: self.vector.lock()
PopLock(t) ==
    /\ callers[t].pc = "pop_lock"
    /\ mutex = None
    /\ mutex' = Some(t)
    /\ callers' = [callers EXCEPT ![t].pc = "pop"]
    /\ UNCHANGED <<nonStackVars, vector, pushed, popped>>

\* pop, holding the lock, at the top of its loop: return the object
\* guard.pop() gives, or wait on the condition variable, which releases the
\* lock.
PopLoop(t) ==
    /\ callers[t].pc = "pop"
    /\ IF vector # <<>>
       THEN /\ vector' = VecPop(vector).rest
            /\ popped' = Append(popped, [thread |-> t,
                                         object |-> VecPop(vector).object])
            /\ callers' = [callers EXCEPT ![t].pc = "idle"]
       ELSE /\ callers' = [callers EXCEPT ![t].pc = "wait"]
            /\ UNCHANGED <<vector, popped>>
    /\ mutex' = None
    /\ UNCHANGED <<nonStackVars, pushed>>

\* Condvar::wait may wake up without a notification.
SpuriousWake(t) ==
    /\ callers[t].pc = "wait"
    /\ callers' = [callers EXCEPT ![t].pc = "woken"]
    /\ UNCHANGED <<nonStackVars, vector, mutex, pushed, popped>>

\* Condvar::wait takes the lock again before it returns.
Relock(t) ==
    /\ callers[t].pc = "woken"
    /\ mutex = None
    /\ mutex' = Some(t)
    /\ callers' = [callers EXCEPT ![t].pc = "pop"]
    /\ UNCHANGED <<nonStackVars, vector, pushed, popped>>

StackNext ==
    \E t \in StackThreads :
        \/ CallPush(t)
        \/ PushLock(t)
        \/ PushObject(t)
        \/ CallPop(t)
        \/ PopLock(t)
        \/ PopLoop(t)
        \/ SpuriousWake(t)
        \/ Relock(t)

StackSpec == StackInit /\ [][StackNext]_vars

\* The stack as the rasterizer uses it (src/src/svg.rs): the main thread
\* pushes, the rasterizer threads pop.
MainThread == 1
RasterizerThreads == StackThreads \ {MainThread}

ProxyStackNext ==
    \/ CallPush(MainThread)
    \/ PushLock(MainThread)
    \/ PushObject(MainThread)
    \/ \E t \in RasterizerThreads :
           \/ CallPop(t)
           \/ PopLock(t)
           \/ PopLoop(t)
           \/ SpuriousWake(t)
           \/ Relock(t)

\* Fair scheduling: a thread inside push or pop that can take its next step
\* takes it.  Nothing makes a thread call push or pop, and nothing makes a
\* wait wake up without a notification.
FairStackSpec ==
    /\ StackInit
    /\ [][ProxyStackNext]_vars
    /\ WF_vars(PushLock(MainThread))
    /\ WF_vars(PushObject(MainThread))
    /\ \A t \in RasterizerThreads :
           /\ WF_vars(PopLock(t))
           /\ WF_vars(PopLoop(t))
           /\ WF_vars(Relock(t))

(***************************************************************************)
(* The cache texture on its own: a texture of any size and tile size, and  *)
(* the uploads rasterize_needed_tiles makes when it drains results, one    *)
(* per slot, in any order.                                                 *)
(*   cache_texture_size  Some(<<width, height>>)                           *)
(*   tile_size           Some(side of a tile without its gutter)           *)
(*   cache_texture       the pixels of the texture: per pixel, None or     *)
(*                       Some(the data uploaded), the data of a tile named *)
(*                       by its address                                    *)
(*   uploads             history: the addresses drained, in order          *)
(***************************************************************************)
\* tile_backing_size
TileBackingSizeOf(size) == size + 2

\* tile_texture_tiles_across, tile_texture_tiles_down
TilesAcrossOf(texture_size, size) == texture_size[1] \div TileBackingSizeOf(size)
TilesDownOf(texture_size, size) == texture_size[2] \div TileBackingSizeOf(size)

\* cache_size
CacheSizeOf(texture_size, size) ==
    TilesAcrossOf(texture_size, size) * TilesDownOf(texture_size, size)

\* RectI::new(tile_origin, Vector2I::splat(1)).scale(tile_backing_size), as
\* the set of its pixels.
CacheTextureRect(tile_origin, tile_backing_size) ==
    {<<x, y>> : x \in (tile_origin[1] * tile_backing_size)
                        ..((tile_origin[1] + 1) * tile_backing_size - 1),
                y \in (tile_origin[2] * tile_backing_size)
                        ..((tile_origin[2] + 1) * tile_backing_size - 1)}

\* The pixels of a texture.
TexturePixels(texture_size) ==
    {<<x, y>> : x \in 0..(texture_size[1] - 1),
                y \in 0..(texture_size[2] - 1)}

\* device.upload_to_texture(texture, rect, pixels)
UploadToTexture(pixels_before, rect, data) ==
    [p \in DOMAIN pixels_before |->
        IF p \in rect THEN Some(data) ELSE pixels_before[p]]

GeometryInit ==
    /\ NoTexture
    /\ NoDirectory
    /\ NoDescriptor
    /\ NoRenderer
    /\ NoStack
    /\ \E w \in 1..MaxTextureW, h \in 1..MaxTextureH, size \in 1..MaxTileSide :
           /\ cache_texture_size = Some(<<w, h>>)
           /\ tile_size = Some(size)
           /\ cache_texture = [p \in TexturePixels(<<w, h>>) |-> None]
    /\ uploads = <<>>

\* rasterize_needed_tiles drains the result of the slot at address, whose
\* tile_origin was computed by address_to_tile_coords when it was pushed.
DrainResult(address) ==
    /\ address < CacheSizeOf(cache_texture_size[1], tile_size[1])
    /\ \A i \in 1..Len(uploads) : uploads[i] # address
    /\ cache_texture' =
           UploadToTexture(
               cache_texture,
               CacheTextureRect(
                   AddressToTileCoordsIn(
                       TilesAcrossOf(cache_texture_size[1], tile_size[1]),
                       address),
                   TileBackingSizeOf(tile_size[1])),
               address)
    /\ uploads' = Append(uploads, address)
    /\ UNCHANGED <<textureVars, pipelineVars, directoryVars, descriptorVars,
                   rendererVars, stackVars, cache_texture_size, tile_size>>

GeometryNext == \E address \in 0..(MaxTextureW * MaxTextureH) : DrainResult(address)

GeometrySpec == GeometryInit /\ [][GeometryNext]_vars

(***************************************************************************)
(* The pipeline with the cache texture of the device: cache_texture_size   *)
(* and tile_size are those of the VirtualTexture, and cache_texture holds, *)
(* per pixel, Some(the pixels uploaded), named by the key they were        *)
(* rasterized for.                                                         *)
(***************************************************************************)
UploadInit ==
    /\ texture \in VirtualTextureNew
    /\ panicked = "none"
    /\ last_call = LastCall("new", None, None, None, None)
    /\ recency = <<>>
    /\ main_pc = "prepare"
    /\ needed_tiles = <<>>
    /\ rasterization_stack = <<>>
    /\ threads = [t \in Threads |-> [pc |-> "pop", msg |-> None]]
    /\ rasterized_tiles = <<>>
    /\ metadata_texture = Some(MetadataTextureSize(texture))
    /\ metadata_upload = None
    /\ metadata = None
    /\ NoDirectory
    /\ NoDescriptor
    /\ NoStack
    /\ cache_texture_size = Some(<<CacheTextureW, CacheTextureH>>)
    /\ tile_size = Some(TileSize)
    /\ cache_texture =
           [p \in TexturePixels(<<CacheTextureW, CacheTextureH>>) |-> None]
    /\ uploads = <<>>

\* UploadRasterizedTile uploading every tile at the origin of the texture.
UploadRasterizedTileAtOrigin ==
    /\ panicked = "none"
    /\ main_pc = "rasterize"
    /\ needed_tiles = <<>>
    /\ rasterized_tiles # <<>>
    /\ \E outcome \in MarkAsRasterizedOutcomes(texture,
                          rasterized_tiles[1].tile_request.address,
                          rasterized_tiles[1].tile_request.descriptor) :
           /\ texture' = outcome.vt
           /\ panicked' = outcome.panic
           /\ last_call' =
                  LastCall("mark_as_rasterized",
                           Some(rasterized_tiles[1].tile_request.descriptor),
                           Some(rasterized_tiles[1].tile_request.address),
                           None, None)
           /\ cache_texture' =
                  IF outcome.panic = "none"
                  THEN UploadToTexture(
                           cache_texture,
                           CacheTextureRect(<<0, 0>>,
                                            TileBackingSizeOf(tile_size[1])),
                           rasterized_tiles[1].new_tile_pixels)
                  ELSE cache_texture
    /\ rasterized_tiles' = Tail(rasterized_tiles)
    /\ UNCHANGED <<recency, main_pc, needed_tiles, rasterization_stack,
                   threads, directoryVars, descriptorVars, rendererVars,
                   stackVars, cache_texture_size, tile_size, uploads>>

\* One round of the while loop of rasterize_needed_tiles: receive a result,
\* mark its tile rasterized and upload its pixels to the cache texture.
UploadRasterizedTile ==
    /\ panicked = "none"
    /\ main_pc = "rasterize"
    /\ needed_tiles = <<>>
    /\ rasterized_tiles # <<>>
    /\ \E outcome \in MarkAsRasterizedOutcomes(texture,
                          rasterized_tiles[1].tile_request.address,
                          rasterized_tiles[1].tile_request.descriptor) :
           /\ texture' = outcome.vt
           /\ panicked' = outcome.panic
           /\ last_call' =
                  LastCall("mark_as_rasterized",
                           Some(rasterized_tiles[1].tile_request.descriptor),
                           Some(rasterized_tiles[1].tile_request.address),
                           None, None)
           /\ cache_texture' =
                  IF outcome.panic = "none"
                  THEN UploadToTexture(
                           cache_texture,
                           CacheTextureRect(rasterized_tiles[1].tile_origin,
                                            TileBackingSizeOf(tile_size[1])),
                           rasterized_tiles[1].new_tile_pixels)
                  ELSE cache_texture
    /\ rasterized_tiles' = Tail(rasterized_tiles)
    /\ UNCHANGED <<recency, main_pc, needed_tiles, rasterization_stack,
                   threads, directoryVars, descriptorVars, rendererVars,
                   stackVars, cache_texture_size, tile_size, uploads>>

UploadNext ==
    \/ \E tile_descriptor \in Descriptors : Prepare(tile_descriptor)
    \/ BeginRasterize
    \/ PushNeededTile
    \/ UploadRasterizedTile
    \/ EndRasterize
    \/ \E t \in Threads : Pop(t)
    \/ \E t \in Threads : Send(t)

UploadSpec == UploadInit /\ [][UploadNext]_vars

(***************************************************************************)
(* The directory of the split-descriptor variant (src/src/lib.rs) on its   *)
(* own.  Its buckets are entries, not options: an empty bucket holds the   *)
(* default entry, TileDescriptor(!0) with TileAddress(!0), and an entry is *)
(* empty when its address is TileAddress(!0).  The state is that of the    *)
(* directory under test: tile_hash_table, first_bucket_size,               *)
(* entries_to_insert and insert_result.                                    *)
(***************************************************************************)
\* TileAddress::default(), TileAddress(!0)
EmptyAddress == 0 - 1

\* TileHashEntry::default()
DefaultEntry == TileHashEntry(0 - 1, EmptyAddress)

\* TileHashEntry::is_empty
IsEmpty(entry) == entry.address = EmptyAddress

\* TileHashSubtable::new
SplitSubtableNew(seed, bucket_size) ==
    [seed |-> seed, buckets |-> [i \in 1..bucket_size |-> DefaultEntry]]

\* TileHashSubtable::get
SplitSubtableGet(subtable, descriptor) ==
    IF /\ ~IsEmpty(subtable.buckets[BucketIndex(subtable, descriptor)])
       /\ subtable.buckets[BucketIndex(subtable, descriptor)].descriptor
              = descriptor
    THEN Some(subtable.buckets[BucketIndex(subtable, descriptor)].address)
    ELSE None

\* TileHashSubtable::insert once the bucket index is computed; ejected is
\* Some(old entry) for Ejected.
SplitSubtableInsertAt(subtable, bucket_index, descriptor, address) ==
    [subtable |-> [subtable EXCEPT
                     !.buckets[bucket_index] =
                         TileHashEntry(descriptor, address)],
     result |-> IF IsEmpty(subtable.buckets[bucket_index])
                THEN "Inserted"
                ELSE IF subtable.buckets[bucket_index].descriptor = descriptor
                THEN "Replaced"
                ELSE "Ejected",
     ejected |-> IF /\ ~IsEmpty(subtable.buckets[bucket_index])
                    /\ subtable.buckets[bucket_index].descriptor # descriptor
                 THEN Some(subtable.buckets[bucket_index])
                 ELSE None]

\* TileHashSubtable::insert
SplitSubtableInsert(subtable, descriptor, address) ==
    SplitSubtableInsertAt(subtable, BucketIndex(subtable, descriptor),
                          descriptor, address)

\* TileHashTable::new: the tables it can return, one per pair of seeds drawn.
SplitTableNew(initial_bucket_size) ==
    {[subtables |-> <<SplitSubtableNew(s0, initial_bucket_size),
                      SplitSubtableNew(s1, initial_bucket_size)>>] :
       s0 \in Seeds, s1 \in Seeds}

\* TileHashTable::get
SplitTableGet(table, descriptor) ==
    FirstSome(SplitSubtableGet(table.subtables[1], descriptor),
              SplitSubtableGet(table.subtables[2], descriptor))

\* The displacement loop of TileHashTable::insert, as Displace above.
RECURSIVE SplitDisplace(_, _, _, _)
SplitDisplaceInto(table, entry, step, max_chain, s, r) ==
    IF r.result = "Ejected"
    THEN SplitDisplace([table EXCEPT !.subtables[s] = r.subtable],
                       r.ejected[1], step + 1, max_chain)
    ELSE [table |-> [table EXCEPT !.subtables[s] = r.subtable],
          done |-> TRUE, result |-> r.result, entry |-> entry]

SplitDisplace(table, entry, step, max_chain) ==
    IF step >= 2 * max_chain
    THEN [table |-> table, done |-> FALSE, result |-> "None", entry |-> entry]
    ELSE SplitDisplaceInto(table, entry, step, max_chain, (step % 2) + 1,
                           SplitSubtableInsert(table.subtables[(step % 2) + 1],
                                               entry.descriptor, entry.address))

\* TileHashTable::insert and TileHashTable::rebuild, each the set of its
\* possible outcomes, one per choice of the seeds drawn by the rebuilds it
\* goes through.  SplitAfterDisplace is insert from the end of its
\* displacement loop, d being what the loop gave: after the rebuild it
\* inserts the descriptor and address insert was called with.  rebuild
\* inserts every bucket of the old table, the empty ones too.  A table is
\* not grown beyond MaxBucketSize buckets.
RECURSIVE SplitInsert(_, _, _), SplitReinsertAll(_, _), SplitRebuild(_, _)
SplitAfterDisplace(bucket_size, d, descriptor, address) ==
    IF d.done
    THEN {[table |-> d.table, result |-> d.result, homeless |-> None]}
    ELSE IF bucket_size * 2 > MaxBucketSize
    THEN {}
    ELSE {[table |-> r.table, result |-> r.result,
           homeless |-> Some(d.entry)] :
            r \in UNION {SplitInsert(rebuilt, descriptor, address) :
                           rebuilt \in SplitRebuild(d.table, bucket_size * 2)}}

SplitInsert(table, descriptor, address) ==
    SplitAfterDisplace(
        Len(table.subtables[1].buckets),
        SplitDisplace(table, TileHashEntry(descriptor, address), 0,
                      MaxChain(Len(table.subtables[1].buckets))),
        descriptor, address)

SplitReinsertAll(tables, old_buckets) ==
    IF old_buckets = <<>>
    THEN tables
    ELSE SplitReinsertAll(
             UNION {{r.table : r \in SplitInsert(t, old_buckets[1].descriptor,
                                                 old_buckets[1].address)} :
                      t \in tables},
             Tail(old_buckets))

SplitRebuild(table, new_bucket_size) ==
    SplitReinsertAll(SplitTableNew(new_bucket_size),
                     table.subtables[1].buckets \o table.subtables[2].buckets)

SplitInit ==
    /\ NoTexture
    /\ NoDescriptor
    /\ NoRenderer
    /\ NoStack
    /\ NoCacheTexture
    /\ \E n \in 1..MaxInitialBucketSize :
           /\ tile_hash_table \in SplitTableNew(n)
           /\ first_bucket_size = n
    /\ entries_to_insert = <<>>
    /\ removed = FALSE
    /\ insert_result = None
    /\ call_stack = <<>>

\* tile_hash_table.insert(descriptor, address); insert_result is the value
\* returned and Some(the entry in hand when the displacement loop gave up)
\* if it did.
SplitTableInsert(descriptor, address) ==
    /\ Len(entries_to_insert) < MaxInserts
    /\ entries_to_insert' = Append(entries_to_insert, <<descriptor, address>>)
    /\ \E outcome \in SplitInsert(tile_hash_table, descriptor, address) :
           /\ tile_hash_table' = outcome.table
           /\ insert_result' = Some(<<outcome.result, outcome.homeless>>)
    /\ UNCHANGED <<textureVars, pipelineVars, descriptorVars, rendererVars,
                   stackVars, geometryVars,
                   first_bucket_size, removed, call_stack>>

SplitNext ==
    \E descriptor \in TestDescriptors :
        SplitTableInsert(descriptor, Len(entries_to_insert))

SplitSpec == SplitInit /\ [][SplitNext]_vars

(***************************************************************************)
(* Properties.                                                             *)
(***************************************************************************)
Tile(address) == texture.tiles[address + 1]
Returned == last_call.returned

\* The number of times address occurs in lru.
Occurrences(lru, address) ==
    Cardinality({i \in 1..Len(lru) : lru[i] = address})

\* The least recently requested address whose slot is not Pending, given the
\* history of returned addresses (most recent first).
LeastRecentNonPending(history, tiles) ==
    LET candidates == SelectSeq(history,
                          LAMBDA a : tiles[a + 1].status # "Pending")
    IN  IF candidates = <<>> THEN None
        ELSE Some(candidates[Len(candidates)])

\* C1: a Pending slot is never chosen as an eviction victim: over any step
\* it keeps its key and its directory entry, the scan never hands it to the
\* eviction code, and it leaves Pending only by a mark_as_rasterized call on
\* its address, which makes it Rasterized.
PendingNeverEvicted ==
    [][\A a \in Addresses :
          Tile(a).status = "Pending" =>
              /\ texture'.tiles[a + 1].descriptor = Tile(a).descriptor
              /\ TableGet(texture'.cache, Tile(a).descriptor[1]) = Some(a)
              /\ panicked' # "unreachable"
              /\ \/ texture'.tiles[a + 1].status = "Pending"
                 \/ /\ texture'.tiles[a + 1].status = "Rasterized"
                    /\ last_call'.op = "mark_as_rasterized"
                    /\ last_call'.address = Some(a)]_vars

\* C1 witness: a request_tile evicted a slot while another slot was Pending.
PendingSurvivedEviction ==
    /\ last_call.op = "request_tile"
    /\ last_call.evicted # None
    /\ \E a \in Addresses :
           /\ Tile(a).status = "Pending"
           /\ Returned # Some(CacheMiss(a))

\* C2: for every key k and address a, directory.get(k) = Some(a) if and
\* only if slot a holds key k and is not Empty.
DirectoryMatchesSlots ==
    \A k \in Descriptors, a \in Addresses :
        (TableGet(texture.cache, k) = Some(a))
            <=> (Tile(a).descriptor = Some(k) /\ Tile(a).status # "Empty")

\* C2 witness: after an eviction a key is resident and another is not.
DirectoryAfterEviction ==
    /\ last_call.evicted # None
    /\ \E k \in Descriptors : TableGet(texture.cache, k) = None
    /\ \E k \in Descriptors : TableGet(texture.cache, k) # None

\* C3: every result in the channel, hence each one the main thread drains,
\* targets a slot that is Pending and holds the result's key, and no
\* assertion of mark_as_rasterized fails.
ResultsTargetPendingSlots ==
    /\ panicked # "debug_assert"
    /\ \A i \in 1..Len(rasterized_tiles) :
           LET tile_request == rasterized_tiles[i].tile_request
           IN  /\ Tile(tile_request.address).status = "Pending"
               /\ Tile(tile_request.address).descriptor =
                      Some(tile_request.descriptor)

\* C3 witness: a result is about to be drained after later requests evicted
\* a slot and left another request in flight.
ResultDrainedAfterEviction ==
    /\ main_pc = "rasterize"
    /\ needed_tiles = <<>>
    /\ rasterized_tiles # <<>>
    /\ last_call.evicted # None
    /\ \E t \in Threads : threads[t].pc = "render"

\* C4: a request_tile that evicts a slot evicts the least recently requested
\* address among the slots that are not Pending.
EvictsLeastRecentlyRequested ==
    [][\A k \in Descriptors :
          (RequestTile(k) /\ last_call'.evicted # None) =>
              Some(last_call'.evicted[1].address) =
                  LeastRecentNonPending(recency, texture.tiles)]_vars

\* C5: a non-empty LRU has at its front the address most recently returned
\* by request_tile.
LruFrontIsLastReturned ==
    texture.lru # <<>> => (recency # <<>> /\ texture.lru[1] = recency[1])

\* C6: every slot that is not Empty occurs exactly once in the LRU, and the
\* lookup of a resident address in the LRU never fails.
NonEmptySlotsOnceInLru ==
    /\ panicked # "lru"
    /\ \A a \in Addresses :
           Tile(a).status # "Empty" => Occurrences(texture.lru, a) = 1

\* C6 witness: with every slot in use, a request_tile found its key resident
\* and promoted its address to the LRU front.
ResidentPromoted ==
    /\ last_call.op = "request_tile"
    /\ Returned # None
    /\ Returned[1][1] \in {"CacheHit", "CachePending"}
    /\ Len(texture.lru) = CacheSize
    /\ CacheSize > 1
    /\ texture.lru[1] = Returned[1][2]
    /\ \A a \in Addresses : Tile(a).status # "Empty"

\* C7: request_tile(k) returns Full exactly when k is not in the directory,
\* no unused slot remains and every slot is Pending; a key that is not
\* resident otherwise gets Miss.
FullIffAllPending ==
    [][\A k \in Descriptors :
          LET saturated == /\ TableGet(texture.cache, k) = None
                           /\ texture.next_free_tile >= CacheSize
                           /\ \A a \in Addresses : Tile(a).status = "Pending"
          IN  RequestTile(k) =>
                  /\ (last_call'.returned = Some(CacheFull)) <=> saturated
                  /\ (TableGet(texture.cache, k) = None /\ ~saturated) =>
                         /\ last_call'.returned # None
                         /\ last_call'.returned[1][1] = "CacheMiss"]_vars

\* C7 witness: a request_tile returned Full.
ReturnedFull ==
    /\ last_call.op = "request_tile"
    /\ Returned = Some(CacheFull)
    /\ CacheSize > 0

\* C8: for a key k the directory maps to address a, request_tile(k) returns
\* Hit(a) if slot a is Rasterized and Pending(a) if it is Pending, and the
\* Empty branch is never taken.
ResidentHitOrPending ==
    [][\A k \in Descriptors, a \in Addresses :
          (RequestTile(k) /\ TableGet(texture.cache, k) = Some(a)) =>
              /\ panicked' = "none"
              /\ Tile(a).status = "Rasterized" =>
                     last_call'.returned = Some(CacheHit(a))
              /\ Tile(a).status = "Pending" =>
                     last_call'.returned = Some(CachePending(a))
              /\ Tile(a).status # "Empty"]_vars

\* C8 witness: a request_tile returned Hit.
ReturnedHit ==
    /\ last_call.op = "request_tile"
    /\ Returned # None
    /\ Returned[1][1] = "CacheHit"

\* C9: when a miss evicts a slot, the victim's key is out of the directory
\* when the call returns and the slot holds the new key; and request_tile
\* answers Hit or Pending at an address only for the key that slot holds,
\* so the evicted key gets Miss or Full.
EvictedKeyLeavesDirectory ==
    [][\A k \in Descriptors :
          RequestTile(k) =>
              /\ last_call'.evicted # None =>
                     LET victim == last_call'.evicted[1]
                     IN  /\ victim.descriptor # None
                         /\ victim.descriptor # Some(k)
                         /\ TableGet(texture.cache, victim.descriptor[1]) =
                                Some(victim.address)
                         /\ TableGet(texture'.cache, victim.descriptor[1]) =
                                None
                         /\ texture'.tiles[victim.address + 1].descriptor =
                                Some(k)
                         /\ \A outcome \in RequestTileOutcomes(texture',
                                               victim.descriptor[1]) :
                                /\ outcome.result # None
                                /\ outcome.result[1][1] \in
                                       {"CacheMiss", "CacheFull"}
              /\ (/\ last_call'.returned # None
                  /\ last_call'.returned[1][1] \in {"CacheHit", "CachePending"})
                     => Tile(last_call'.returned[1][2]).descriptor = Some(k)]_vars

\* C9 witness: a request_tile evicted a Rasterized slot.
EvictedRasterized ==
    /\ last_call.op = "request_tile"
    /\ last_call.evicted # None
    /\ last_call.evicted[1].status = "Rasterized"

\* C10: mark_as_rasterized(a, k) on a Pending slot a holding k changes only
\* the status of slot a, to Rasterized: the LRU, the directory, the
\* free-slot counter and every other slot are unchanged.
MarkChangesOnlyStatus ==
    [][\A a \in Addresses, k \in Descriptors :
          MarkAsRasterized(a, k) =>
              /\ texture'.lru = texture.lru
              /\ texture'.cache = texture.cache
              /\ texture'.next_free_tile = texture.next_free_tile
              /\ texture'.tiles =
                     [texture.tiles EXCEPT ![a + 1].status = "Rasterized"]
              /\ panicked' = "none"]_vars

\* C10 witness: mark_as_rasterized was called on a slot that is not at the
\* front of the LRU.
MarkedBehindFront ==
    /\ last_call.op = "mark_as_rasterized"
    /\ Len(texture.lru) > 1
    /\ texture.lru[1] # last_call.address[1]
    /\ Tile(last_call.address[1]).status = "Rasterized"

\* The addresses stored in the directory.
DirectoryAddresses(table) ==
    {bucket[1].address :
       bucket \in {table.subtables[s].buckets[i] :
                     s \in 1..2, i \in 1..Len(table.subtables[1].buckets)}
                  \ {None}}

\* C11: every address request_tile returns (Hit, Pending or Miss) and every
\* address stored in the LRU or the directory is at least 0 and less than
\* floor(cache_w / backing) * floor(cache_h / backing), which is the cache
\* capacity and the length of the slot table.
AddressesWithinCapacity ==
    LET capacity == (CacheTextureW \div (TileSize + 2))
                        * (CacheTextureH \div (TileSize + 2))
        InRange(address) == 0 <= address /\ address < capacity
    IN  /\ CacheSize = capacity
        /\ Len(texture.tiles) = capacity
        /\ \A i \in 1..Len(texture.lru) : InRange(texture.lru[i])
        /\ \A address \in DirectoryAddresses(texture.cache) : InRange(address)
        /\ (Returned # None /\ Returned # Some(CacheFull))
               => InRange(Returned[1][2])

\* C11 witness: request_tile returned the last address of the cache, which
\* is in the directory and in the LRU, after an eviction.
LastAddressReturned ==
    /\ last_call.op = "request_tile"
    /\ last_call.evicted # None
    /\ Returned = Some(CacheMiss(CacheSize - 1))
    /\ CacheSize - 1 \in DirectoryAddresses(texture.cache)
    /\ texture.lru[1] = CacheSize - 1

\* C12: after every public call each slot has a key if and only if its
\* status is not Empty.
KeyIffNotEmpty ==
    \A a \in Addresses :
        (Tile(a).descriptor # None) <=> (Tile(a).status # "Empty")

\* C12 witness: a slot that was evicted holds the key of the request that
\* evicted it and is Pending, while its old key is gone from every slot.
EvictedSlotRefilled ==
    /\ last_call.op = "request_tile"
    /\ last_call.evicted # None
    /\ Returned # None
    /\ Returned[1][1] = "CacheMiss"
    /\ Tile(Returned[1][2]).descriptor = last_call.descriptor
    /\ Tile(Returned[1][2]).status = "Pending"
    /\ \A a \in Addresses :
           Tile(a).descriptor # last_call.evicted[1].descriptor

\* C20: the descriptor encoding round-trips: for x, y in [0, 8192) and lod
\* in [-32, 32), tile_position() and lod() of TileDescriptor::new((x, y),
\* lod) are (x, y) and lod, the descriptor is a 32-bit value, and a different
\* (x, y, lod) gives a different descriptor.
DescriptorRoundTrips ==
    /\ decoded # None => decoded[1] = <<position, level>>
    /\ encoded # None =>
           /\ encoded[1][1] \in 0..65535
           /\ encoded[1][2] \in 0..65535
           /\ \A x \in SampleCoords, y \in SampleCoords, lod \in Lods :
                  <<x, y, lod>> # <<position[1], position[2], level>>
                      => TileDescriptorBits(x, y, lod) # encoded[1]

\* C20 witness: the descriptor of the largest position at a negative level
\* of detail was decoded.
NegativeLodDecoded ==
    /\ decoded # None
    /\ level < 0
    /\ position = <<TileCoordLimit - 1, TileCoordLimit - 1>>
    /\ decoded[1][2] = level

\* The address of the most recent insert of key k in a list of inserts.
RECURSIVE LastInserted(_, _)
LastInserted(entries, k) ==
    IF entries = <<>> THEN None
    ELSE IF entries[Len(entries)][1] = k THEN Some(entries[Len(entries)][2])
    ELSE LastInserted(SubSeq(entries, 1, Len(entries) - 1), k)

\* The keys of a list of inserts.
InsertedKeys(entries) == {entries[i][1] : i \in 1..Len(entries)}

\* Whether the keys of a list of inserts are all different.
DistinctKeys(entries) == Cardinality(InsertedKeys(entries)) = Len(entries)

\* A directory with buckets that went through inserts only.
InsertsOnly ==
    /\ panicked = "none"
    /\ removed = FALSE
    /\ BucketSize(tile_hash_table) > 0

\* C13: after any sequence of inserts, get(k) returns the address of the
\* most recent insert of k and None for a key never inserted; an insert of a
\* key inserted before with a different address reports Replaced.
GetReturnsLastInsert ==
    InsertsOnly =>
        /\ \A k \in TestDescriptors :
               TableGet(tile_hash_table, k) = LastInserted(entries_to_insert, k)
        /\ \A i \in 1..(Len(entries_to_insert) - 1) :
               (/\ insert_result # None
                /\ entries_to_insert[i][1]
                       = entries_to_insert[Len(entries_to_insert)][1]
                /\ entries_to_insert[i][2]
                       # entries_to_insert[Len(entries_to_insert)][2])
                   => insert_result = Some("Replaced")

\* C14: for any list of entries, keys possibly repeated, and any two seeds,
\* after the list is inserted into a table constructed with at least twice
\* as many buckets as the list is long, get finds every key of the list.
GetFindsInserted ==
    (InsertsOnly /\ first_bucket_size >= 2 * Len(entries_to_insert)) =>
        \A i \in 1..Len(entries_to_insert) :
            TableGet(tile_hash_table, entries_to_insert[i][1]) # None

\* C14 witness: a list of three entries with a repeated key was inserted
\* into such a table and the last insert displaced an entry.
RepeatedKeyInserted ==
    /\ InsertsOnly
    /\ Len(entries_to_insert) = 3
    /\ first_bucket_size >= 6
    /\ ~DistinctKeys(entries_to_insert)
    /\ \E k \in TestDescriptors :
           /\ SubtableGet(tile_hash_table.subtables[1], k) = None
           /\ SubtableGet(tile_hash_table.subtables[2], k) # None

\* C15: growth loses no entry: over an insert that rebuilds the table, every
\* other key that get found before is found after with the same address,
\* and the inserted key is found with the address inserted.
GrowthKeepsEntries ==
    [][\A descriptor \in TestDescriptors, address \in TestAddresses :
          (/\ TableInsert(descriptor, address)
           /\ BucketSize(tile_hash_table) > 0
           /\ BucketSize(tile_hash_table') > BucketSize(tile_hash_table))
              => /\ TableGet(tile_hash_table', descriptor) = Some(address)
                 /\ \A k \in TestDescriptors \ {descriptor} :
                        TableGet(tile_hash_table, k) # None
                            => TableGet(tile_hash_table', k)
                                   = TableGet(tile_hash_table, k)]_vars

\* C16 as stated: after m distinct keys are inserted into a table
\* constructed with fewer than m buckets, every key is found with its
\* address and the bucket count is at least m.
GrowsToKeyCount ==
    (/\ InsertsOnly
     /\ DistinctKeys(entries_to_insert)
     /\ first_bucket_size < Len(entries_to_insert)) =>
        /\ \A i \in 1..Len(entries_to_insert) :
               TableGet(tile_hash_table, entries_to_insert[i][1])
                   = Some(entries_to_insert[i][2])
        /\ BucketSize(tile_hash_table) >= Len(entries_to_insert)

\* C16 amended: after m distinct keys are inserted into a table constructed
\* with fewer than m buckets, every key is found with its address, and the
\* bucket count is at least m / 2 and at least what it was constructed with.
GrowsToHoldKeys ==
    (/\ InsertsOnly
     /\ DistinctKeys(entries_to_insert)
     /\ first_bucket_size < Len(entries_to_insert)) =>
        /\ \A i \in 1..Len(entries_to_insert) :
               TableGet(tile_hash_table, entries_to_insert[i][1])
                   = Some(entries_to_insert[i][2])
        /\ 2 * BucketSize(tile_hash_table) >= Len(entries_to_insert)
        /\ BucketSize(tile_hash_table) >= first_bucket_size

\* C16 witness: three distinct keys were inserted into a table constructed
\* with two buckets, which has grown.
ThreeKeysGrewTable ==
    /\ InsertsOnly
    /\ DistinctKeys(entries_to_insert)
    /\ Len(entries_to_insert) = 3
    /\ first_bucket_size = 2
    /\ BucketSize(tile_hash_table) > 2

\* C18: a directory constructed with a bucket count of 0 is rejected at
\* construction, so no directory exists without buckets.
EmptyDirectoryRejected ==
    tile_hash_table # None => BucketSize(tile_hash_table) # 0

\* Whether n is a power of two.
RECURSIVE IsPowerOfTwo(_)
IsPowerOfTwo(n) ==
    IF n <= 1 THEN n = 1 ELSE n % 2 = 0 /\ IsPowerOfTwo(n \div 2)

\* Whether n is m doubled one or more times.
RECURSIVE IsDoubled(_, _)
IsDoubled(n, m) ==
    IF m = 0 \/ n <= m THEN FALSE
    ELSE n = 2 * m \/ IsDoubled(n, 2 * m)

\* C19: the two subtables always have the same bucket count, a power of two
\* when the table was constructed with one; the count changes only inside
\* an insert, by doubling, and never shrinks.
BucketCountDoubles ==
    [][/\ Len(tile_hash_table'.subtables[1].buckets)
              = Len(tile_hash_table'.subtables[2].buckets)
       /\ Len(tile_hash_table.subtables[1].buckets)
              = Len(tile_hash_table.subtables[2].buckets)
       /\ IsPowerOfTwo(first_bucket_size) =>
              /\ IsPowerOfTwo(BucketSize(tile_hash_table))
              /\ IsPowerOfTwo(BucketSize(tile_hash_table'))
       /\ BucketSize(tile_hash_table') >= BucketSize(tile_hash_table)
       /\ BucketSize(tile_hash_table') # BucketSize(tile_hash_table) =>
              /\ IsDoubled(BucketSize(tile_hash_table'),
                           BucketSize(tile_hash_table))
              /\ Len(entries_to_insert') = Len(entries_to_insert) + 1]_vars

\* C19 witness: one insert doubled the bucket count of a table constructed
\* with two buckets twice, after a remove.
DoubledTwice ==
    /\ panicked = "none"
    /\ first_bucket_size = 2
    /\ removed
    /\ insert_result # None
    /\ BucketSize(tile_hash_table) = 8

Remaining ==
    SelectSeq(pushed,
              LAMBDA o : \A i \in 1..Len(popped) : popped[i].object # o)

\* C21: the stack is LIFO: every pop returns the most recently pushed of
\* the objects that are still on the stack.
PopsMostRecentlyPushed ==
    [][Len(popped') > Len(popped)
          => /\ Remaining # <<>>
             /\ popped'[Len(popped')].object = Remaining[Len(Remaining)]]_vars

\* C21 witness: two objects were pushed one after the other and the first
\* pop returned the second of them.
SecondPushedPoppedFirst ==
    /\ Len(pushed) >= 2
    /\ popped # <<>>
    /\ popped[1].object = pushed[2]
    /\ vector = <<pushed[1]>>

\* C30: under every interleaving of push and pop calls no object is lost or
\* returned twice (the objects pushed and not yet returned are the vector),
\* a pop that returns has taken its object off the vector, and a pop that
\* finds the vector empty does not return.
EachObjectPoppedOnce ==
    /\ [](/\ vector = Remaining
          /\ \A i, j \in 1..Len(popped) :
                 popped[i].object = popped[j].object => i = j)
    /\ [][/\ Len(popped') > Len(popped)
             => /\ vector # <<>>
                /\ Len(vector') = Len(vector) - 1
                /\ \E i \in 1..Len(vector) :
                       vector[i] = popped'[Len(popped')].object
          /\ \A t \in StackThreads :
                 (callers[t].pc = "pop" /\ vector = <<>>)
                     => (callers'[t].pc # "idle" /\ popped' = popped)]_vars

\* C30 witness: two threads have each popped an object while a third waits
\* on the empty stack.
TwoPoppedOneWaits ==
    /\ Len(popped) = 2
    /\ popped[1].thread # popped[2].thread
    /\ vector = <<>>
    /\ \E t \in StackThreads : callers[t].pc = "wait"

\* C22: a worker whose rasterization of a request panics still sends one
\* result for that request and goes on to pop the next one.
WorkerSurvivesPanic ==
    [][\A t \in Threads :
          RasterizePanics(t)
              => /\ threads'[t].pc = "pop"
                 /\ Len(rasterized_tiles') = Len(rasterized_tiles) + 1
                 /\ rasterized_tiles'[Len(rasterized_tiles')].tile_request
                        = threads[t].msg[1].tile_request]_vars

\* A request for the slot at address is on the rasterization stack.
OnStack(address) ==
    \E i \in 1..Len(rasterization_stack) :
        rasterization_stack[i].tile_request.address = address

\* C23: under fair scheduling every request pushed on the rasterization
\* stack is served: while the main loop runs, its slot is eventually marked
\* rasterized.
PushedRequestsServed ==
    \A address \in Addresses :
        OnStack(address)
            ~> (Tile(address).status = "Rasterized" \/ panicked # "none")

\* C24: a pixel of the feedback image with alpha 0 or with a negative x or
\* y is skipped: no tile is requested for it and nothing panics.
SkipsTransparentAndNegative ==
    [][\A pixel \in FeedbackPixels :
          (/\ PreparePixel(pixel)
           /\ (pixel[4] = 0 \/ pixel[1] < 0 \/ pixel[2] < 0))
              => UNCHANGED <<texture, panicked, last_call, needed_tiles>>]_vars

\* A request for the key is in needed_tiles.
InNeededTiles(tile_descriptor) ==
    \E i \in 1..Len(needed_tiles) :
        needed_tiles[i].descriptor = tile_descriptor

\* C25: within the requests of one frame a key misses at most once: no two
\* requests of needed_tiles are for the same key, and a pixel whose key
\* already has a request in needed_tiles gets Pending or Hit and adds none.
OneMissPerKey ==
    /\ [](\A i, j \in 1..Len(needed_tiles) :
              needed_tiles[i].descriptor = needed_tiles[j].descriptor
                  => i = j)
    /\ [][\A tile_descriptor \in Descriptors :
             (Prepare(tile_descriptor) /\ InNeededTiles(tile_descriptor))
                 => /\ Returned' # None
                    /\ Returned'[1][1] \in {"CachePending", "CacheHit"}
                    /\ needed_tiles' = needed_tiles]_vars

\* C25 witness: in a frame after the first (a tile has been rasterized), a
\* key that missed in this frame was requested again and found Pending.
KeyRequestedAgainInFrame ==
    /\ main_pc = "prepare"
    /\ panicked = "none"
    /\ last_call.op = "request_tile"
    /\ Returned # None
    /\ Returned[1][1] = "CachePending"
    /\ InNeededTiles(last_call.descriptor[1])
    /\ \E a \in Addresses : Tile(a).status = "Rasterized"

\* C26: at every metadata upload the metadata texture allocated has the
\* size (bucket count of the directory, 4), and the rectangle uploaded to
\* does not exceed it.
MetadataTextureFitsDirectory ==
    [][Render
          => /\ metadata_texture = Some(<<TableSize(texture), 4>>)
             /\ metadata_upload'[1][1] <= metadata_texture[1][1]
             /\ metadata_upload'[1][2] <= metadata_texture[1][2]]_vars

\* The rectangle the tile of the slot at address is uploaded to, in the
\* cache texture under test.
SlotRect(address) ==
    CacheTextureRect(
        AddressToTileCoordsIn(
            TilesAcrossOf(cache_texture_size[1], tile_size[1]), address),
        TileBackingSizeOf(tile_size[1]))

\* C27: distinct addresses below the capacity have distinct grid cells
\* inside the grid and disjoint upload rectangles inside the cache texture,
\* and whatever the order results were drained in, the cache texture is the
\* same: every pixel holds the data of the one drained slot whose rectangle
\* it lies in, if any.
UploadsCommute ==
    cache_texture_size # None =>
        LET across == TilesAcrossOf(cache_texture_size[1], tile_size[1])
            down == TilesDownOf(cache_texture_size[1], tile_size[1])
            slots == 0..(CacheSizeOf(cache_texture_size[1], tile_size[1]) - 1)
            drained == {uploads[i] : i \in 1..Len(uploads)}
        IN  /\ \A a \in slots :
                   /\ AddressToTileCoordsIn(across, a)[1] < across
                   /\ AddressToTileCoordsIn(across, a)[2] < down
                   /\ SlotRect(a) \subseteq TexturePixels(cache_texture_size[1])
                   /\ \A b \in slots \ {a} :
                          /\ AddressToTileCoordsIn(across, a)
                                 # AddressToTileCoordsIn(across, b)
                          /\ SlotRect(a) \cap SlotRect(b) = {}
            /\ \A p \in TexturePixels(cache_texture_size[1]) :
                   /\ \A a \in drained :
                          p \in SlotRect(a) => cache_texture[p] = Some(a)
                   /\ (\A a \in drained : p \notin SlotRect(a))
                          => cache_texture[p] = None

\* C27 witness: the six slots of a grid of three by two tiles were all
\* drained, the last slot first and the first slot last.
AllSlotsDrainedOutOfOrder ==
    /\ cache_texture_size # None
    /\ TilesAcrossOf(cache_texture_size[1], tile_size[1]) = 3
    /\ TilesDownOf(cache_texture_size[1], tile_size[1]) = 2
    /\ Len(uploads) = 6
    /\ uploads[1] = 5
    /\ uploads[6] = 0

\* C28: while next_free_tile is below the capacity, a request_tile that
\* misses returns the address next_free_tile and advances the counter by
\* one, so misses fill the addresses 0, 1, 2, ... in ascending order; it
\* evicts nothing: every other slot and every key of the directory stay as
\* they were.  A call evicts a slot only when next_free_tile has reached
\* the capacity, and the slots at and above next_free_tile are Empty.
FirstFitFill ==
    /\ [](\A a \in Addresses :
             a >= texture.next_free_tile =>
                 /\ Tile(a).status = "Empty"
                 /\ Tile(a).descriptor = None)
    /\ [][\A k \in Descriptors :
             RequestTile(k) =>
                 /\ (/\ texture.next_free_tile < CacheSize
                     /\ last_call'.returned # None
                     /\ last_call'.returned[1][1] = "CacheMiss") =>
                        /\ last_call'.returned =
                               Some(CacheMiss(texture.next_free_tile))
                        /\ texture'.next_free_tile =
                               texture.next_free_tile + 1
                        /\ last_call'.evicted = None
                        /\ \A a \in Addresses \ {texture.next_free_tile} :
                               texture'.tiles[a + 1] = texture.tiles[a + 1]
                        /\ \A d \in Descriptors \ {k} :
                               TableGet(texture'.cache, d) =
                                   TableGet(texture.cache, d)
                 /\ last_call'.evicted # None =>
                        texture.next_free_tile = CacheSize
                 /\ texture'.next_free_tile \in
                        {texture.next_free_tile, texture.next_free_tile + 1}
          ]_vars

\* C28 witness: with a Rasterized slot in the LRU and a slot never handed
\* out, a miss took the unused slot, the last one, and the Rasterized slot
\* still holds its key.
MissFilledLastSlot ==
    /\ last_call.op = "request_tile"
    /\ Returned = Some(CacheMiss(CacheSize - 1))
    /\ last_call.evicted = None
    /\ texture.next_free_tile = CacheSize
    /\ \E a \in Addresses :
           /\ Tile(a).status = "Rasterized"
           /\ Tile(a).descriptor # None
           /\ Tile(a).descriptor # last_call.descriptor

FullChangesOnlyLruOrder ==
    [][\A k \in Descriptors :
          (RequestTile(k) /\ last_call'.returned = Some(CacheFull)) =>
              /\ panicked' = "none"
              /\ texture'.tiles = texture.tiles
              /\ texture'.cache = texture.cache
              /\ texture'.next_free_tile = texture.next_free_tile
              /\ Len(texture'.lru) = Len(texture.lru)
              /\ \A a \in Addresses :
                     /\ Occurrences(texture'.lru, a) =
                            Occurrences(texture.lru, a)
                     /\ Occurrences(texture'.lru, a) = 1]_vars

\* C32 witness: a request_tile returned Full for a key that is in no slot,
\* and every address is in the LRU, the first slot filled at the front.
FullKeptEveryAddress ==
    /\ last_call.op = "request_tile"
    /\ Returned = Some(CacheFull)
    /\ \A a \in Addresses :
           /\ Tile(a).status = "Pending"
           /\ Tile(a).descriptor # last_call.descriptor
           /\ Occurrences(texture.lru, a) = 1
    /\ CacheSize > 1
    /\ texture.lru[1] = 0

\* The addresses of lru other than the address a request_tile returned as
\* a miss, in their order.
LruWithout(lru, result) ==
    SelectSeq(lru, LAMBDA a : result # Some(CacheMiss(a)))

\* C33: a request_tile that runs the eviction scan (the key is not resident
\* and no unused slot remains), with a victim or without one, leaves the
\* addresses that stay in the LRU in the order they had.
ScanKeepsLruOrder ==
    [][\A k \in Descriptors :
          (/\ RequestTile(k)
           /\ TableGet(texture.cache, k) = None
           /\ texture.next_free_tile >= CacheSize) =>
              LruWithout(texture'.lru, last_call'.returned) =
                  LruWithout(texture.lru, last_call'.returned)]_vars

\* The number of slots of tiles that are not Empty.
NonEmptySlots(tiles) ==
    Cardinality({i \in 1..Len(tiles) : tiles[i].status # "Empty"})

\* C38: after every public call the length of the LRU, the free-slot
\* counter and the number of slots that are not Empty are equal, the slots
\* below the counter (those ever assigned) are not Empty, and no call makes
\* the three numbers smaller.
AssignedSlotsStayInUse ==
    /\ [](/\ Len(texture.lru) = texture.next_free_tile
          /\ NonEmptySlots(texture.tiles) = texture.next_free_tile
          /\ \A a \in Addresses :
                 a < texture.next_free_tile => Tile(a).status # "Empty")
    /\ [][/\ texture'.next_free_tile >= texture.next_free_tile
          /\ Len(texture'.lru) >= Len(texture.lru)
          /\ NonEmptySlots(texture'.tiles) >= NonEmptySlots(texture.tiles)
         ]_vars

\* C38 witness: a request_tile evicted a slot, and when it returned every
\* slot was in use and in the LRU.
EvictionLeftNoSlotEmpty ==
    /\ last_call.op = "request_tile"
    /\ last_call.evicted # None
    /\ texture.next_free_tile = CacheSize
    /\ Len(texture.lru) = CacheSize
    /\ NonEmptySlots(texture.tiles) = CacheSize

\* The number of items for address in flight: requests in needed_tiles, on
\* the request stack and in a rasterizer thread's hands, and results in the
\* channel.
ItemsInFlight(address) ==
    Cardinality({i \in 1..Len(needed_tiles) :
                    needed_tiles[i].address = address})
    + Cardinality({i \in 1..Len(rasterization_stack) :
                      rasterization_stack[i].tile_request.address = address})
    + Cardinality({t \in Threads :
                      /\ threads[t].msg # None
                      /\ threads[t].msg[1].tile_request.address = address})
    + Cardinality({i \in 1..Len(rasterized_tiles) :
                      rasterized_tiles[i].tile_request.address = address})

\* C34: in every state of every interleaving of the main loop and the
\* rasterizer threads, a Pending slot has exactly one item in flight for its
\* address and an Empty or Rasterized slot has none.
OneItemPerPendingSlot ==
    \A a \in Addresses :
        ItemsInFlight(a) = IF Tile(a).status = "Pending" THEN 1 ELSE 0

\* C34 witness: every slot is Pending, the item of one being rasterized by
\* a thread and the item of another waiting in the result channel.
ItemsInHandAndInChannel ==
    /\ CacheSize > 1
    /\ \A a \in Addresses : Tile(a).status = "Pending"
    /\ \E t \in Threads : threads[t].pc = "render"
    /\ rasterized_tiles # <<>>

\* The pixels of the cache texture in the rectangle of the slot at address
\* all hold data.
RectHolds(address, data) ==
    \A p \in CacheTextureRect(AddressToTileCoords(address), TileBackingSize) :
        cache_texture[p] = Some(data)

\* C35: whenever a slot is Rasterized with key k, the rectangle of the slot
\* in the cache texture holds the pixels rasterized for k, those of the last
\* upload to it.
RasterizedSlotHoldsItsPixels ==
    \A a \in Addresses :
        Tile(a).status = "Rasterized" => RectHolds(a, Tile(a).descriptor[1])

\* C35 witness: a slot is Rasterized and its rectangle holds the pixels of
\* its key, while another slot, evicted and assigned again, is Pending with
\* the pixels of the key it held before still in its rectangle.
StalePixelsOnlyUnderPending ==
    \E a \in Addresses, b \in Addresses, k \in Descriptors :
        /\ a # b
        /\ Tile(a).status = "Rasterized"
        /\ RectHolds(a, Tile(a).descriptor[1])
        /\ Tile(b).status = "Pending"
        /\ Tile(b).descriptor # Some(k)
        /\ RectHolds(b, k)

\* A thread is inside pop: about to lock, holding the lock, waiting on the
\* condition variable or woken.
InsidePop(t) == callers[t].pc \in {"pop_lock", "pop", "wait", "woken"}

\* C36: under fair scheduling, whenever the vector is not empty and a
\* thread is inside pop, a pop eventually returns: no notify_one of push is
\* lost, whatever the interleaving of the pushes and the threads' pops.
PopEventuallyReturns ==
    \A n \in 0..MaxPushes :
        (/\ vector # <<>>
         /\ \E t \in RasterizerThreads : InsidePop(t)
         /\ Len(popped) = n) ~> (Len(popped) > n)

\* C36 witness: two threads waited on the condition variable; a push woke
\* one of them, which has not taken the lock yet, and the other still
\* waits while the vector holds the object.
OneWaiterWokenByPush ==
    \E t \in RasterizerThreads, u \in RasterizerThreads :
        /\ callers[t].pc = "woken"
        /\ callers[u].pc = "wait"
        /\ vector # <<>>
        /\ popped = <<>>

\* The number of buckets of table, over its two subtables, that hold key.
BucketsHolding(table, key) ==
    Cardinality({<<s, i>> \in (1..2) \X (1..Len(table.subtables[1].buckets)) :
                    /\ table.subtables[s].buckets[i] # None
                    /\ table.subtables[s].buckets[i][1].descriptor = key})

\* C37: under any sequence of insert and remove on the directory, every key
\* is in at most one bucket of the two subtables, and after remove(k),
\* get(k) is None.
KeyInOneBucket ==
    /\ [](panicked = "none" =>
             \A k \in TestDescriptors :
                 BucketsHolding(tile_hash_table, k) <= 1)
    /\ [][\A k \in TestDescriptors :
             (TableRemoveEntry(k) /\ panicked' = "none") =>
                 TableGet(tile_hash_table', k) = None]_vars

\* Seeds to hash with, besides those of the tables under test; the last is
\* 0xffffffff.
HashSeeds == Seeds \cup {1, 2, 3, 5, 6, 65535, 65536, 2147483647, 0 - 1}

\* TileDescriptor::hash, tabulated for the test keys and these seeds.
SeededHashes ==
    [k \in TestDescriptors |-> [seed \in HashSeeds |-> HashValue(k, seed)]]

\* The unseeded hash of key modulo n.
UnseededIndex(key, n) == Mod32(SeededHashes[key][0], n)

\* The keys stored in table.
StoredKeys(table) ==
    {k \in TestDescriptors : BucketsHolding(table, k) > 0}

\* C40: while the bucket count n of the directory is a power of two, the
\* bucket index of every key in each subtable, and under any seed, is
\* (h(key) mod n) XOR (seed mod n), h being the hash without a seed; two
\* keys share a bucket in the first subtable exactly when they share one in
\* the second; at most two keys with equal h mod n are stored, and the
\* insert of a third such key grows the table.
IndexIsUnseededIndexXorSeed ==
    /\ [](IsPowerOfTwo(BucketSize(tile_hash_table)) =>
             \A k \in TestDescriptors :
                 /\ \A seed \in HashSeeds :
                        Mod32(SeededHashes[k][seed], BucketSize(tile_hash_table))
                            = XorBits(UnseededIndex(k, BucketSize(tile_hash_table)),
                                      seed % BucketSize(tile_hash_table))
                 /\ \A s \in 1..2 :
                        BucketIndex(tile_hash_table.subtables[s], k) - 1
                            = XorBits(UnseededIndex(k, BucketSize(tile_hash_table)),
                                      tile_hash_table.subtables[s].seed
                                          % BucketSize(tile_hash_table))
                 /\ \A j \in TestDescriptors :
                        (BucketIndex(tile_hash_table.subtables[1], k)
                             = BucketIndex(tile_hash_table.subtables[1], j))
                        <=> (BucketIndex(tile_hash_table.subtables[2], k)
                                 = BucketIndex(tile_hash_table.subtables[2], j))
                 /\ Cardinality(
                        {j \in StoredKeys(tile_hash_table) :
                            UnseededIndex(j, BucketSize(tile_hash_table))
                                = UnseededIndex(k, BucketSize(tile_hash_table))})
                        <= 2)
    /\ [][\A k \in TestDescriptors :
             (/\ TableInsert(k, Len(entries_to_insert))
              /\ IsPowerOfTwo(BucketSize(tile_hash_table))
              /\ Cardinality(
                     {j \in StoredKeys(tile_hash_table) \ {k} :
                         UnseededIndex(j, BucketSize(tile_hash_table))
                             = UnseededIndex(k, BucketSize(tile_hash_table))})
                     = 2) =>
                 BucketSize(tile_hash_table') > BucketSize(tile_hash_table)
         ]_vars

\* C40 witness: a table of two buckets per subtable whose seeds differ
\* modulo 2 took three keys with equal unseeded hash modulo 2, and grew.
ThirdCollidingKeyGrewTable ==
    /\ InsertsOnly
    /\ first_bucket_size = 2
    /\ tile_hash_table.subtables[1].seed % 2
           # tile_hash_table.subtables[2].seed % 2
    /\ Len(entries_to_insert) = 3
    /\ DistinctKeys(entries_to_insert)
    /\ \A i \in 1..3 :
           UnseededIndex(entries_to_insert[i][1], 2)
               = UnseededIndex(entries_to_insert[1][1], 2)
    /\ BucketSize(tile_hash_table) > 2
    /\ IsPowerOfTwo(BucketSize(tile_hash_table))

\* C39: in the directory of the split-descriptor variant, an insert of a
\* key that is not stored, into a table whose keys were inserted once each,
\* keeps every key that was retrievable before it retrievable with its
\* address, also when the displacement loop gives up and the table is
\* rebuilt: the entry left in hand is in the table afterwards.
RebuildKeepsHomelessEntry ==
    [][\A k \in TestDescriptors :
          (/\ SplitTableInsert(k, Len(entries_to_insert))
           /\ DistinctKeys(entries_to_insert')) =>
              /\ \A j \in TestDescriptors \ {k} :
                     SplitTableGet(tile_hash_table, j) # None =>
                         SplitTableGet(tile_hash_table', j)
                             = SplitTableGet(tile_hash_table, j)
              /\ insert_result'[1][2] # None =>
                     SplitTableGet(tile_hash_table',
                                   insert_result'[1][2][1].descriptor)
                         = Some(insert_result'[1][2][1].address)]_vars

\* What the shader finds for key in the metadata packed from vt against
\* what the directory holds for it: found exactly when the directory has
\* the key, with the rectangle of the key's address.
LookupAgrees(found, address) ==
    /\ (found # None) <=> (address # None)
    /\ address # None => found = Some(TileRect(address[1]))

\* C31: the metadata a render packs reproduces directory.get: for every
\* key the shader's lookup finds an entry exactly when the directory holds
\* the key, for a Pending as for a Rasterized slot, with the rectangle of
\* the key's address; the texels of empty buckets are zeros.
MetadataReproducesGet ==
    [][Render =>
          /\ \A k \in Descriptors :
                 LookupAgrees(
                     ShaderGet(metadata'[1],
                               texture.cache.subtables[1].seed,
                               texture.cache.subtables[2].seed,
                               TableSize(texture), k),
                     TableGet(texture.cache, k))
          /\ \A s \in 1..2, i \in 1..TableSize(texture) :
                 texture.cache.subtables[s].buckets[i] = None =>
                     /\ metadata'[1][2 * (s - 1)][i] = ZeroTexel
                     /\ metadata'[1][2 * (s - 1) + 1][i] = ZeroRect]_vars

====
